---- MODULE Spec2Model ----
(***************************************************************************)
(* Query classifier of the chat API (services/chat-api/src/index.ts).      *)
(*                                                                         *)
(* A query is a string.  Strings are TLC strings: Len, SubSeq and \o act   *)
(* on them character by character, and a character is a string of length  *)
(* one.  The regular expressions of the source are translated by hand,     *)
(* position by position, keeping their word boundaries, their greedy       *)
(* order and their case-insensitivity.                                     *)
(*                                                                         *)
(* Numbers: structuredScore moves in steps of 0.5 and the confidence in    *)
(* steps of 0.05, so scores are kept in halves (a keyword adds 2, an       *)
(* entity group adds 1) and confidences in hundredths (0.6 is 60).         *)
(***************************************************************************)
EXTENDS Integers, Sequences, FiniteSets, TLC

VARIABLES query, pc, result, searchTerms, redistilled, scores

\* The state of a process that classifies one query after another: the
\* lastIndex of the four module-level patterns, and the calls made so far.
VARIABLES lastIndex, calls

\* The state of one GET /health request: where its handler stands, the
\* state of each of the four probes and how its fetch ended, the names of
\* the probes in the order they settled, the values Promise.all has
\* gathered, and the responses sent.
VARIABLES hpc, probes, outcome, order, values, responses

\* The state of one lookup in the reference API: where it stands, what is
\* looked up, the index of its name and the index of that index, how the
\* API answered, what srdFetch gave and what the lookup gave; and the
\* state of one search in it, whose detail fetches are such lookups.
VARIABLES spc, lookup, index, reindexed, reply, fetchResult, returned, search

\* The state of the server between requests: for each client address the
\* requests the limiter of /chat has counted in its window and the time
\* left until the window ends (0: no window), the requests that reached
\* the chat router in that window, and the latest request with its response.
VARIABLES hits, window, passed, latest

classifierVars == <<query, pc, result, searchTerms, redistilled, scores>>

sessionVars == <<lastIndex, calls>>

healthVars == <<hpc, probes, outcome, order, values, responses>>

srdVars == <<spc, lookup, index, reindexed, reply, fetchResult, returned, search>>

httpVars == <<hits, window, passed, latest>>

vars == <<classifierVars, sessionVars, healthVars, srdVars, httpVars>>

---------------------------------------------------------------------------
(* Bounds of the model                                                     *)

\* Number of vocabulary words a word-built query holds at most.
MaxWords == 2

\* Number of characters a character-built query holds at most.
MaxChars == 3

---------------------------------------------------------------------------
(* Characters and JavaScript string primitives                             *)

CharAt(s, i) == SubSeq(s, i, i)

CharsOf(s) == {CharAt(s, i) : i \in 1..Len(s)}

UpperLetters == "ABCDEFGHIJKLMNOPQRSTUVWXYZ"

LowerLetters == "abcdefghijklmnopqrstuvwxyz"

Digits == CharsOf("0123456789")

\* \s of a JavaScript regular expression (the ASCII part).
Whitespace == {" ", "\t", "\n", "\r", "\f"}

\* \w of a JavaScript regular expression.
WordChars == CharsOf(UpperLetters) \cup CharsOf(LowerLetters) \cup Digits \cup {"_"}

LowerOf == [c \in CharsOf(UpperLetters) |->
              CharAt(LowerLetters, CHOOSE i \in 1..26 : CharAt(UpperLetters, i) = c)]

UpperOf == [c \in CharsOf(LowerLetters) |->
              CharAt(UpperLetters, CHOOSE i \in 1..26 : CharAt(LowerLetters, i) = c)]

LowerChar(c) == IF c \in DOMAIN LowerOf THEN LowerOf[c] ELSE c

UpperChar(c) == IF c \in DOMAIN UpperOf THEN UpperOf[c] ELSE c

RECURSIVE MapChars(_, _, _)
MapChars(s, i, upper) ==
  IF i > Len(s) THEN ""
  ELSE (IF upper THEN UpperChar(CharAt(s, i)) ELSE LowerChar(CharAt(s, i)))
       \o MapChars(s, i + 1, upper)

\* String.prototype.toLowerCase
toLowerCase(s) == MapChars(s, 1, FALSE)

\* String.prototype.toUpperCase
toUpperCase(s) == MapChars(s, 1, TRUE)

\* String.prototype.trim
trim(s) ==
  LET keep == {i \in 1..Len(s) : CharAt(s, i) \notin Whitespace}
  IN IF keep = {} THEN ""
     ELSE SubSeq(s, CHOOSE i \in keep : \A j \in keep : i <= j,
                    CHOOSE i \in keep : \A j \in keep : j <= i)

\* String.prototype.includes
includes(s, keyword) ==
  \E i \in 1..(Len(s) - Len(keyword) + 1) : SubSeq(s, i, i + Len(keyword) - 1) = keyword

\* s.split(/\s+/): the pieces between maximal runs of whitespace; a run at
\* the start or at the end of s gives an empty first or last piece, and the
\* empty string gives one empty piece.
RECURSIVE splitFrom(_, _, _)
splitFrom(s, i, piece) ==
  IF i > Len(s) THEN <<piece>>
  ELSE IF CharAt(s, i) \in Whitespace
       THEN IF i > 1 /\ CharAt(s, i - 1) \in Whitespace
            THEN splitFrom(s, i + 1, piece)
            ELSE <<piece>> \o splitFrom(s, i + 1, "")
       ELSE splitFrom(s, i + 1, piece \o CharAt(s, i))

splitWhitespace(s) == splitFrom(s, 1, "")

\* Array.prototype.join
RECURSIVE join(_, _)
join(ws, sep) ==
  IF ws = <<>> THEN ""
  ELSE IF Len(ws) = 1 THEN ws[1]
  ELSE ws[1] \o sep \o join(Tail(ws), sep)

\* Array.prototype.includes
arrayIncludes(ws, w) == \E i \in 1..Len(ws) : ws[i] = w

\* The regular expression assertion \b at the gap before position i.
WordBoundary(s, i) ==
  (i > 1 /\ i - 1 <= Len(s) /\ CharAt(s, i - 1) \in WordChars)
    # (i >= 1 /\ i <= Len(s) /\ CharAt(s, i) \in WordChars)

\* The length of the run of characters of class cls that starts at i.
RECURSIVE RunLength(_, _, _)
RunLength(s, i, cls) ==
  IF i <= Len(s) /\ CharAt(s, i) \in cls THEN 1 + RunLength(s, i + 1, cls) ELSE 0

\* An optional value: <<>> is undefined (or null), <<v>> is the value v.
Undefined == <<>>

Some(v) == <<v>>

---------------------------------------------------------------------------
(* Regular expressions: a backtracking matcher                             *)
(*                                                                         *)
(* A pattern is a sequence of alternatives (the | of its top level), an    *)
(* alternative is a sequence of items, and an item is one of the records   *)
(* below.  All the patterns of the source are case-insensitive (/i): a     *)
(* literal is written in lower case and compared with the lower-cased      *)
(* text, and a class lists both cases of its letters.  Quantifiers are     *)
(* greedy, as in the source.                                               *)

\* A literal.
Lit(str) == [k |-> "lit", s |-> str]

\* A character class repeated min..max times: [..], [..]? and [..]{m,n}.
Cls(chars, min, max) == [k |-> "cls", c |-> chars, min |-> min, max |-> max, inf |-> FALSE]

\* A character class repeated min times or more: [..]* and [..]+.
Many(chars, min) == [k |-> "cls", c |-> chars, min |-> min, max |-> min, inf |-> TRUE]

\* The assertion \b.
Wb == [k |-> "wb"]

\* The capture group number g around a sequence of items.
Cap(g, items) == [k |-> "cap", g |-> g, xs |-> items]

\* (?: ... )? around a sequence of items.
Opt(items) == [k |-> "opt", xs |-> items]

\* (?: a | b | ... ), each branch a sequence of items.
Alt(branches) == [k |-> "alt", xs |-> branches]

\* k from hi down to lo: the choices of a greedy quantifier, in the order
\* the matcher tries them.
RECURSIVE Downto(_, _)
Downto(hi, lo) == IF hi < lo THEN <<>> ELSE <<hi>> \o Downto(hi - 1, lo)

Min(a, b) == IF a <= b THEN a ELSE b

\* Every way an item matches at position i, in the matcher's order of
\* preference; each is <<the position after the match, the captures>>.
RECURSIVE AllItem(_, _, _, _), AllSeq(_, _, _, _, _), AllAlt(_, _, _, _, _), Continue(_, _, _, _, _)
AllItem(item, s, i, caps) ==
  CASE item.k = "lit" ->
         IF /\ i + Len(item.s) - 1 <= Len(s)
            /\ LowerChar(CharAt(s, i)) = CharAt(item.s, 1)
            /\ toLowerCase(SubSeq(s, i, i + Len(item.s) - 1)) = item.s
         THEN << <<i + Len(item.s), caps>> >> ELSE <<>>
    [] item.k = "cls" ->
         LET run == RunLength(s, i, item.c)
             ks  == Downto(IF item.inf THEN run ELSE Min(run, item.max), item.min)
         IN [n \in 1..Len(ks) |-> <<i + ks[n], caps>>]
    [] item.k = "wb" ->
         IF WordBoundary(s, i) THEN << <<i, caps>> >> ELSE <<>>
    [] item.k = "cap" ->
         LET rs == AllSeq(item.xs, 1, s, i, caps)
         IN [n \in 1..Len(rs) |->
               <<rs[n][1], [rs[n][2] EXCEPT ![item.g] = Some(SubSeq(s, i, rs[n][1] - 1))]>>]
    [] item.k = "opt" ->
         AllSeq(item.xs, 1, s, i, caps) \o << <<i, caps>> >>
    [] item.k = "alt" ->
         AllAlt(item.xs, 1, s, i, caps)

\* Every way the items from number idx on match at position i.
AllSeq(items, idx, s, i, caps) ==
  IF idx > Len(items) THEN << <<i, caps>> >>
  ELSE Continue(AllItem(items[idx], s, i, caps), 1, items, idx, s)

\* The matches of the rest of a sequence after each match rs[n..] of item idx.
Continue(rs, n, items, idx, s) ==
  IF n > Len(rs) THEN <<>>
  ELSE AllSeq(items, idx + 1, s, rs[n][1], rs[n][2]) \o Continue(rs, n + 1, items, idx, s)

\* Every way one of the branches from number b on matches at position i.
AllAlt(branches, b, s, i, caps) ==
  IF b > Len(branches) THEN <<>>
  ELSE AllSeq(branches[b], 1, s, i, caps) \o AllAlt(branches, b + 1, s, i, caps)

\* The first match of a top-level alternative at position i, found depth
\* first: the matches of item idx are tried in order, and the first one the
\* rest of the alternative can follow wins.  Undefined when there is none.
RECURSIVE FirstSeq(_, _, _, _, _), FirstOf(_, _, _, _, _)
FirstSeq(items, idx, s, i, caps) ==
  IF idx > Len(items) THEN Some(caps)
  ELSE FirstOf(AllItem(items[idx], s, i, caps), 1, items, idx, s)

FirstOf(rs, n, items, idx, s) ==
  IF n > Len(rs) THEN Undefined
  ELSE LET m == FirstSeq(items, idx + 1, s, rs[n][1], rs[n][2])
       IN IF m # Undefined THEN m ELSE FirstOf(rs, n + 1, items, idx, s)

\* The first match that starts at position i, trying the alternatives of
\* the pattern in order.
RECURSIVE MatchAt(_, _, _, _, _)
MatchAt(pattern, a, s, i, caps) ==
  IF a > Len(pattern) THEN Undefined
  ELSE LET m == FirstSeq(pattern[a], 1, s, i, caps)
       IN IF m # Undefined THEN m ELSE MatchAt(pattern, a + 1, s, i, caps)

\* String.prototype.match of a pattern without the g flag: the captures of
\* the leftmost match (Undefined for a group that took no part), or
\* Undefined (null) when the pattern matches nowhere.
RECURSIVE MatchFrom(_, _, _, _)
MatchFrom(pattern, s, i, caps) ==
  IF i > Len(s) + 1 THEN Undefined
  ELSE LET m == MatchAt(pattern, 1, s, i, caps)
       IN IF m # Undefined THEN m ELSE MatchFrom(pattern, s, i + 1, caps)

\* A literal that stands at the top of an alternative (outside every
\* optional part) is part of each of its matches, so an alternative with
\* such a literal that the lower-cased text does not contain matches
\* nowhere.  canMatch is FALSE only for such alternatives.
RECURSIVE canMatch(_, _), canMatchAny(_, _, _)
canMatch(items, lowered) ==
  \A n \in 1..Len(items) :
    CASE items[n].k = "lit" -> includes(lowered, items[n].s)
      [] items[n].k = "cap" -> canMatch(items[n].xs, lowered)
      [] items[n].k = "alt" -> canMatchAny(items[n].xs, 1, lowered)
      [] OTHER -> TRUE

canMatchAny(branches, b, lowered) ==
  /\ b <= Len(branches)
  /\ (canMatch(branches[b], lowered) \/ canMatchAny(branches, b + 1, lowered))

\* The alternatives of a pattern that can match the text at all, in order.
viable(pattern, lowered) == SelectSeq(pattern, LAMBDA items : canMatch(items, lowered))

match(s, pattern, groups) ==
  MatchFrom(viable(pattern, toLowerCase(s)), s, 1, [g \in 1..groups |-> Undefined])

\* m[g] of a match m: the text of group g, or Undefined.
Group(m, g) == m[1][g]

\* m[g] of a match m whose group g took part in it.
GroupText(m, g) == m[1][g][1]

---------------------------------------------------------------------------
(* Constant tables of the classifier                                       *)

STRUCTURED_KEYWORDS ==
  <<"list", "all", "how many", "count", "level", "cr", "challenge rating",
    "type", "category", "school", "class", "find", "show me", "what are",
    "which">>

\* Object.entries(ENTITY_KEYWORDS), in insertion order.
ENTITY_TYPES == <<"spells", "monsters", "equipment", "rooms">>

ENTITY_KEYWORDS ==
  [spells    |-> <<"spell", "spells", "cantrip", "cantrips", "ritual",
                   "rituals", "cast", "casting">>,
   monsters  |-> <<"monster", "monsters", "creature", "creatures", "enemy",
                   "enemies", "cr", "challenge rating">>,
   equipment |-> <<"equipment", "item", "items", "weapon", "weapons",
                   "armor", "armour", "tool", "tools", "gear">>,
   rooms     |-> <<"room", "rooms", "chamber", "chambers", "area",
                   "corridor", "hallway">>]

SEMANTIC_KEYWORDS ==
  <<"how does", "how do", "what is", "what are", "explain", "describe",
    "tell me about", "what happens", "what's", "overview", "guide",
    "rules for", "mechanics", "strategy", "lore", "story", "background",
    "history">>

ALL_ENDPOINTS == <<"spells", "monsters", "equipment", "rooms">>

stopWords ==
  {"a", "an", "the", "is", "are", "was", "were", "be", "been", "being",
   "have", "has", "had", "do", "does", "did", "will", "would", "could",
   "should", "what", "which", "who", "whom", "how", "when", "where", "why",
   "i", "me", "my", "we", "our", "you", "your", "he", "she", "it", "they",
   "them", "this", "that", "these", "those", "am", "of", "for", "to", "in",
   "on", "at", "by", "with", "about", "against", "between", "into",
   "through", "during", "before", "after", "above", "below", "from", "up",
   "down", "out", "off", "over", "under", "again", "further", "then",
   "once", "here", "there", "all", "each", "few", "more", "most", "other",
   "some", "such", "no", "nor", "not", "only", "own", "same", "so", "than",
   "too", "very", "can", "just", "now", "also", "get", "tell", "work",
   "use", "make",
   "spell", "spells", "monster", "monsters", "creature", "creatures",
   "stats", "stat", "statistics", "abilities", "ability", "attacks",
   "attack", "describe", "explain", "show", "find", "look", "looking",
   "need", "room", "rooms", "region", "area", "level", "class", "classes",
   "equipment", "item", "items", "weapon", "weapons", "armor",
   "traps", "trap", "treasure", "loot"}

---------------------------------------------------------------------------
(* The patterns of the classifier                                          *)

\* [A-D] under /i
RegionLetters == CharsOf("ABCDabcd")

\* [a-z\s] under /i
LettersAndSpace == CharsOf(LowerLetters) \cup CharsOf(UpperLetters) \cup Whitespace

\* ["']
Quotes == {"\"", "'"}

\* The room pattern without the optional separator between letter and
\* digits.
ROOM_ID_PATTERN_NoSeparator ==
  << <<Wb, Cap(1, <<Cls(RegionLetters, 1, 1)>>), Cap(2, <<Cls(Digits, 1, 3)>>), Wb>> >>

\* The room pattern without its i flag: only upper-case letters.
ROOM_ID_PATTERN_CaseSensitive ==
  << <<Wb, Cap(1, <<Cls(CharsOf("ABCD"), 1, 1)>>), Cls({"-"} \cup Whitespace, 0, 1),
       Cap(2, <<Cls(Digits, 1, 3)>>), Wb>> >>

\* /\b([A-D])[-\s]?(\d{1,3})\b/i
ROOM_ID_PATTERN ==
  << <<Wb, Cap(1, <<Cls(RegionLetters, 1, 1)>>), Cls({"-"} \cup Whitespace, 0, 1),
       Cap(2, <<Cls(Digits, 1, 3)>>), Wb>> >>

\* The region pattern without the word area.
REGION_PATTERN_RegionOnly ==
  << <<Wb, Cap(1, <<Lit("region")>>), Many(Whitespace, 0),
       Cap(2, <<Cls(RegionLetters, 1, 1)>>), Wb>> >>

\* /\b(region|area)\s*([A-D])\b/i
REGION_PATTERN ==
  << <<Wb, Cap(1, <<Alt(<< <<Lit("region")>>, <<Lit("area")>> >>)>>), Many(Whitespace, 0),
       Cap(2, <<Cls(RegionLetters, 1, 1)>>), Wb>> >>

\* /\blevel\s*(\d)\b|\b(\d)(?:st|nd|rd|th)?\s*level\b/i
SPELL_LEVEL_PATTERN ==
  << <<Wb, Lit("level"), Many(Whitespace, 0), Cap(1, <<Cls(Digits, 1, 1)>>), Wb>>,
     <<Wb, Cap(2, <<Cls(Digits, 1, 1)>>),
       Opt(<<Alt(<< <<Lit("st")>>, <<Lit("nd")>>, <<Lit("rd")>>, <<Lit("th")>> >>)>>),
       Many(Whitespace, 0), Lit("level"), Wb>> >>

\* /\bcr\s*(\d+(?:\/\d+)?)\b|\bchallenge\s*rating\s*(\d+(?:\/\d+)?)\b/i
CR_PATTERN ==
  << <<Wb, Lit("cr"), Many(Whitespace, 0),
       Cap(1, <<Many(Digits, 1), Opt(<<Lit("/"), Many(Digits, 1)>>)>>), Wb>>,
     <<Wb, Lit("challenge"), Many(Whitespace, 0), Lit("rating"), Many(Whitespace, 0),
       Cap(2, <<Many(Digits, 1), Opt(<<Lit("/"), Many(Digits, 1)>>)>>), Wb>> >>

\* The three patterns of extractSpellName, in the order they are tried.
spellPatterns ==
  << \* /cast(?:ing)?\s+(?:the\s+)?["']?([a-z\s]+)["']?\s*(?:spell)?/i
     << <<Lit("cast"), Opt(<<Lit("ing")>>), Many(Whitespace, 1),
          Opt(<<Lit("the"), Many(Whitespace, 1)>>), Cls(Quotes, 0, 1),
          Cap(1, <<Many(LettersAndSpace, 1)>>), Cls(Quotes, 0, 1),
          Many(Whitespace, 0), Opt(<<Lit("spell")>>)>> >>,
     \* /(?:the\s+)?["']?([a-z\s]+)["']?\s+spell/i
     << <<Opt(<<Lit("the"), Many(Whitespace, 1)>>), Cls(Quotes, 0, 1),
          Cap(1, <<Many(LettersAndSpace, 1)>>), Cls(Quotes, 0, 1),
          Many(Whitespace, 1), Lit("spell")>> >>,
     \* /spell\s+(?:called\s+)?["']?([a-z\s]+)["']?/i
     << <<Lit("spell"), Many(Whitespace, 1), Opt(<<Lit("called"), Many(Whitespace, 1)>>),
          Cls(Quotes, 0, 1), Cap(1, <<Many(LettersAndSpace, 1)>>), Cls(Quotes, 0, 1)>> >> >>

\* The three patterns of extractMonsterName, in the order they are tried.
monsterPatterns ==
  << \* /(?:fight(?:ing)?|encounter(?:ing)?|facing)\s+(?:a\s+)?["']?([a-z\s]+)["']?/i
     << <<Alt(<< <<Lit("fight"), Opt(<<Lit("ing")>>)>>,
                 <<Lit("encounter"), Opt(<<Lit("ing")>>)>>,
                 <<Lit("facing")>> >>),
          Many(Whitespace, 1), Opt(<<Lit("a"), Many(Whitespace, 1)>>), Cls(Quotes, 0, 1),
          Cap(1, <<Many(LettersAndSpace, 1)>>), Cls(Quotes, 0, 1)>> >>,
     \* /["']?([a-z\s]+)["']?\s+(?:monster|creature|enemy)/i
     << <<Cls(Quotes, 0, 1), Cap(1, <<Many(LettersAndSpace, 1)>>), Cls(Quotes, 0, 1),
          Many(Whitespace, 1),
          Alt(<< <<Lit("monster")>>, <<Lit("creature")>>, <<Lit("enemy")>> >>)>> >>,
     \* /(?:about|the)\s+["']?([a-z\s]+)["']?\s+(?:stat(?:s)?|abilities|attacks)/i
     << <<Alt(<< <<Lit("about")>>, <<Lit("the")>> >>), Many(Whitespace, 1),
          Cls(Quotes, 0, 1), Cap(1, <<Many(LettersAndSpace, 1)>>), Cls(Quotes, 0, 1),
          Many(Whitespace, 1),
          Alt(<< <<Lit("stat"), Opt(<<Lit("s")>>)>>, <<Lit("abilities")>>,
                 <<Lit("attacks")>> >>)>> >> >>

\* The loop of extractSpellName and extractMonsterName: the first pattern
\* that matches with a non-empty group 1 returns that group trimmed (which
\* may be the empty string); Undefined when no pattern does.
RECURSIVE firstName(_, _, _)
firstName(q, patterns, n) ==
  IF n > Len(patterns) THEN Undefined
  ELSE LET m == match(q, patterns[n], 1)
       IN IF m # Undefined /\ Group(m, 1) # Undefined /\ GroupText(m, 1) # ""
          THEN Some(trim(GroupText(m, 1)))
          ELSE firstName(q, patterns, n + 1)

extractSpellName(q) == firstName(q, spellPatterns, 1)

extractMonsterName(q) == firstName(q, monsterPatterns, 1)

---------------------------------------------------------------------------
(* extractSearchTerms                                                      *)

\* .replace(/[^\w\s]/g, ' ')
RECURSIVE replacePunctuation(_, _)
replacePunctuation(s, i) ==
  IF i > Len(s) THEN ""
  ELSE (IF CharAt(s, i) \in WordChars \cup Whitespace THEN CharAt(s, i) ELSE " ")
       \o replacePunctuation(s, i + 1)

\* .filter(word => word.length > 1 && !stopWords.has(word))
keepWord(word) == Len(word) > 1 /\ word \notin stopWords

\* The chain of extractSearchTerms up to .join(' ').
cleanedTerms(q) ==
  join(SelectSeq(splitWhitespace(replacePunctuation(toLowerCase(q), 1)), keepWord), " ")

\* A slip in the chain: the stop-word filter runs on the words as typed
\* and the lower-casing comes last.
cleanedTermsLowerLast(q) ==
  toLowerCase(join(SelectSeq(splitWhitespace(replacePunctuation(q, 1)), keepWord), " "))

\* extractSearchTerms without its fallback to the query.
extractSearchTermsNoFallback(q) == cleanedTerms(q)

\* extractSearchTerms with the lower-casing last.
extractSearchTermsLowerLast(q) ==
  LET cleaned == cleanedTermsLowerLast(q) IN IF cleaned # "" THEN cleaned ELSE q

\* return cleaned || query
extractSearchTerms(q) ==
  LET cleaned == cleanedTerms(q) IN IF cleaned # "" THEN cleaned ELSE q

---------------------------------------------------------------------------
(* classifyQuery                                                           *)

\* parseInt(d, 10) of one digit
parseDigit(d) == CHOOSE n \in 0..9 : CharAt("0123456789", n + 1) = d

\* [...new Set(xs)]: the first occurrence of each element, in order.
RECURSIVE dedupe(_)
dedupe(xs) ==
  IF xs = <<>> THEN <<>>
  ELSE LET front == dedupe(SubSeq(xs, 1, Len(xs) - 1))
           last  == xs[Len(xs)]
       IN IF arrayIncludes(front, last) THEN front ELSE Append(front, last)

\* The keywords of a list that lowerQuery.includes, in list order.
matchedKeywords(lowerQuery, keywords) ==
  SelectSeq(keywords, LAMBDA keyword : includes(lowerQuery, keyword))

\* detectedEntities without the break of its inner loop: a type is pushed
\* once for each of its keywords that occurs.
detectEntitiesNoBreak(words, lowerQuery) ==
  LET pushed(entityType) ==
        [n \in 1..Len(matchedKeywords(lowerQuery, ENTITY_KEYWORDS[entityType])) |-> entityType]
  IN pushed("spells") \o pushed("monsters") \o pushed("equipment") \o pushed("rooms")

\* The entity types with a keyword that is one of the words or that
\* lowerQuery.includes; the break after the first hit makes each type
\* count once.
detectEntities(words, lowerQuery) ==
  SelectSeq(ENTITY_TYPES,
            LAMBDA entityType :
              \E n \in 1..Len(ENTITY_KEYWORDS[entityType]) :
                \/ arrayIncludes(words, ENTITY_KEYWORDS[entityType][n])
                \/ includes(lowerQuery, ENTITY_KEYWORDS[entityType][n]))

\* Scores are in halves: +1 in the source is +2 here, +0.5 is +1.
structuredScoreOf(matchedStructuredKeywords, detectedEntities) ==
  2 * Len(matchedStructuredKeywords) + Len(detectedEntities)

semanticScoreOf(matchedSemanticKeywords) == 2 * Len(matchedSemanticKeywords)

\* The entities that the matches of the four patterns, the two extracted
\* names and the search terms give (the assignments of "Extract entities").
entitiesOf(roomMatch, regionMatch, levelMatch, crMatch, extractedSpell, extractedMonster, terms) ==
  [roomId |->
     IF roomMatch # Undefined
     THEN Some(toUpperCase(GroupText(roomMatch, 1)) \o GroupText(roomMatch, 2))
     ELSE Undefined,
   region |->
     IF regionMatch # Undefined THEN Some(toUpperCase(GroupText(regionMatch, 2)))
     ELSE IF roomMatch # Undefined THEN Some(toUpperCase(GroupText(roomMatch, 1)))
     ELSE Undefined,
   level |->
     IF levelMatch # Undefined
     THEN Some(parseDigit(IF Group(levelMatch, 1) # Undefined
                          THEN GroupText(levelMatch, 1) ELSE GroupText(levelMatch, 2)))
     ELSE Undefined,
   cr |->
     IF crMatch # Undefined
     THEN (IF Group(crMatch, 1) # Undefined THEN Group(crMatch, 1) ELSE Group(crMatch, 2))
     ELSE Undefined,
   spellName |->
     IF extractedSpell # Undefined /\ extractedSpell # Some("")
     THEN extractedSpell ELSE Undefined,
   monsterName |->
     IF extractedMonster # Undefined /\ extractedMonster # Some("")
     THEN extractedMonster ELSE Undefined,
   equipmentName |-> Undefined,
   searchTerms |-> Some(terms)]

\* The room rule returning as soon as the room pattern has matched, before
\* the other extractions.
extractEntitiesRoomFirst(q) ==
  IF match(q, ROOM_ID_PATTERN, 2) # Undefined
  THEN entitiesOf(match(q, ROOM_ID_PATTERN, 2), Undefined, Undefined, Undefined,
                  Undefined, Undefined, extractSearchTerms(q))
  ELSE entitiesOf(match(q, ROOM_ID_PATTERN, 2), match(q, REGION_PATTERN, 2),
                  match(q, SPELL_LEVEL_PATTERN, 2), match(q, CR_PATTERN, 2),
                  extractSpellName(q), extractMonsterName(q), extractSearchTerms(q))

\* The "Extract entities" part of classifyQuery: the patterns are matched
\* against the query as typed.
extractEntities(q) ==
  entitiesOf(match(q, ROOM_ID_PATTERN, 2), match(q, REGION_PATTERN, 2),
             match(q, SPELL_LEVEL_PATTERN, 2), match(q, CR_PATTERN, 2),
             extractSpellName(q), extractMonsterName(q), extractSearchTerms(q))

\* The routing of the room and of the region rule.
roomsRouting == [rag |-> TRUE, sqlite |-> TRUE, sqliteEndpoints |-> <<"rooms">>]

\* The structured rule with its threshold at 3 instead of 2.
isStructuredFromThree(structuredScore, semanticScore) ==
  structuredScore > semanticScore /\ structuredScore >= 6

\* structuredScore > semanticScore && structuredScore >= 2
isStructured(structuredScore, semanticScore) ==
  structuredScore > semanticScore /\ structuredScore >= 4

\* The structured confidence without its cap.
structuredConfidenceUncapped(structuredScore) == 60 + 5 * structuredScore

\* Math.min(0.95, 0.6 + structuredScore * 0.1), in hundredths
structuredConfidence(structuredScore) == Min(95, 60 + 5 * structuredScore)

\* The structured endpoints without a fallback: the detected entities even
\* when there are none.
structuredEndpointsNoDefault(detectedEntities) == dedupe(detectedEntities)

\* The structured endpoints falling back to every endpoint.
structuredEndpointsDefaultAll(detectedEntities) ==
  IF Len(detectedEntities) > 0 THEN dedupe(detectedEntities) ELSE ALL_ENDPOINTS

structuredEndpoints(detectedEntities) ==
  IF Len(detectedEntities) > 0 THEN dedupe(detectedEntities) ELSE <<"spells", "monsters">>

\* The mixed rule asking for a whole structured keyword (a score of 1).
isMixedFromOne(structuredScore, semanticScore) == structuredScore >= 2 /\ semanticScore > 0

\* structuredScore > 0 && semanticScore > 0
isMixed(structuredScore, semanticScore) == structuredScore > 0 /\ semanticScore > 0

mixedEndpoints(detectedEntities) ==
  IF Len(detectedEntities) > 0 THEN dedupe(detectedEntities) ELSE ALL_ENDPOINTS

\* The semantic confidence that leaves the initial 0.5 of the result in
\* place when no semantic keyword matched.
semanticConfidenceKeepsInitial(semanticScore) ==
  IF semanticScore > 0 THEN Min(90, 60 + 5 * semanticScore) ELSE 50

\* The semantic confidence without its cap.
semanticConfidenceUncapped(semanticScore) ==
  IF semanticScore > 0 THEN 60 + 5 * semanticScore ELSE 60

\* semanticScore > 0 ? Math.min(0.9, 0.6 + semanticScore * 0.1) : 0.6
semanticConfidence(semanticScore) ==
  IF semanticScore > 0 THEN Min(90, 60 + 5 * semanticScore) ELSE 60

\* A semantic query sent to the vector backend alone.
semanticRoutingRagOnly == [rag |-> TRUE, sqlite |-> FALSE, sqliteEndpoints |-> ALL_ENDPOINTS]

\* The routing of the default (semantic) rule.
semanticRouting == [rag |-> TRUE, sqlite |-> TRUE, sqliteEndpoints |-> ALL_ENDPOINTS]

\* x || fallback for a string x
orElse(x, fallback) == IF x # "" THEN x ELSE fallback

\* The three rules of classifyQuery that read the scores (lines 461 to
\* 501), in the order of the source: the first one that applies returns.
decideByScore(entities, matchedStructuredKeywords, detectedEntities, matchedSemanticKeywords) ==
  LET structuredScore == structuredScoreOf(matchedStructuredKeywords, detectedEntities)
      semanticScore   == semanticScoreOf(matchedSemanticKeywords)
  IN IF isStructured(structuredScore, semanticScore)
     THEN [type |-> "structured", confidence |-> structuredConfidence(structuredScore),
           routing |-> [rag |-> TRUE, sqlite |-> TRUE,
                        sqliteEndpoints |-> structuredEndpoints(detectedEntities)],
           extractedEntities |-> entities,
           reasoning |-> "Structured query detected (keywords: "
             \o join(matchedStructuredKeywords, ", ")
             \o "). Routing to both RAG and SQLite for "
             \o orElse(join(detectedEntities, ", "), "entity lookup") \o "."]
     ELSE IF isMixed(structuredScore, semanticScore)
     THEN [type |-> "hybrid", confidence |-> 70,
           routing |-> [rag |-> TRUE, sqlite |-> TRUE,
                        sqliteEndpoints |-> mixedEndpoints(detectedEntities)],
           extractedEntities |-> entities,
           reasoning |-> "Mixed query type (structured: "
             \o join(matchedStructuredKeywords, ", ") \o ", semantic: "
             \o join(matchedSemanticKeywords, ", ") \o "). Routing to both sources ("
             \o (IF Len(detectedEntities) > 0 THEN join(detectedEntities, ", ")
                 ELSE "all endpoints") \o ")."]
     ELSE [type |-> "semantic", confidence |-> semanticConfidence(semanticScore),
           routing |-> semanticRouting,
           extractedEntities |-> entities,
           reasoning |->
             IF semanticScore > 0
             THEN "Semantic query detected (keywords: "
                    \o join(matchedSemanticKeywords, ", ")
                    \o "). Routing to both RAG and SQLite (all endpoints) for comprehensive results."
             ELSE "No strong signals detected, routing to both RAG and SQLite (all endpoints) for comprehensive context."]

\* The rules in another order: the structured rule tried before the room
\* and the region rule.
decideScoresFirst(entities, matchedStructuredKeywords, detectedEntities, matchedSemanticKeywords) ==
  IF isStructured(structuredScoreOf(matchedStructuredKeywords, detectedEntities),
                  semanticScoreOf(matchedSemanticKeywords))
     \/ (entities.roomId = Undefined /\ entities.region = Undefined)
  THEN decideByScore(entities, matchedStructuredKeywords, detectedEntities,
                     matchedSemanticKeywords)
  ELSE [type |-> "hybrid", confidence |-> IF entities.roomId # Undefined THEN 90 ELSE 80,
        routing |-> roomsRouting, extractedEntities |-> entities, reasoning |-> ""]

\* The rules of classifyQuery, in the order of the source: the first one
\* that applies returns.
decide(entities, matchedStructuredKeywords, detectedEntities, matchedSemanticKeywords) ==
  IF entities.roomId # Undefined
  THEN [type |-> "hybrid", confidence |-> 90, routing |-> roomsRouting,
        extractedEntities |-> entities,
        reasoning |-> "Query mentions specific room " \o entities.roomId[1]
          \o ", routing to both RAG for context and SQLite for structured room data."]
  ELSE IF entities.region # Undefined /\ entities.roomId = Undefined
  THEN [type |-> "hybrid", confidence |-> 80, routing |-> roomsRouting,
        extractedEntities |-> entities,
        reasoning |-> "Query mentions Region " \o entities.region[1]
          \o ", routing to both RAG for lore and SQLite for room listings."]
  ELSE decideByScore(entities, matchedStructuredKeywords, detectedEntities,
                     matchedSemanticKeywords)

\* structuredScore and semanticScore when the three scoring loops have
\* run, on lowerQuery = query.toLowerCase().trim().
scoresOf(lowerQuery) ==
  [structuredScore |->
     structuredScoreOf(matchedKeywords(lowerQuery, STRUCTURED_KEYWORDS),
                       detectEntities(splitWhitespace(lowerQuery), lowerQuery)),
   semanticScore |-> semanticScoreOf(matchedKeywords(lowerQuery, SEMANTIC_KEYWORDS))]

\* The scoring part of classifyQuery, on lowerQuery = query.toLowerCase().trim().
scoreAndDecide(q, lowerQuery) ==
  decide(extractEntities(q),
         matchedKeywords(lowerQuery, STRUCTURED_KEYWORDS),
         detectEntities(splitWhitespace(lowerQuery), lowerQuery),
         matchedKeywords(lowerQuery, SEMANTIC_KEYWORDS))

classifyQuery(q) == scoreAndDecide(q, trim(toLowerCase(q)))

---------------------------------------------------------------------------
(* classifyQuery as a call that reads and writes the module's patterns     *)
(*                                                                         *)
(* ROOM_ID_PATTERN, REGION_PATTERN, SPELL_LEVEL_PATTERN and CR_PATTERN are *)
(* module-level RegExp objects: each carries a lastIndex from one call of  *)
(* classifyQuery to the next.  The patterns of extractSpellName and        *)
(* extractMonsterName are literals evaluated at each call, and             *)
(* ALL_ENDPOINTS is an array built at each call.                           *)

\* The flags of the module-level patterns with the y flag added.
PATTERN_FLAGS_Sticky == "iy"

\* The flags of the four module-level patterns.
PATTERN_FLAGS == "i"

sticky(flags) == includes(flags, "y")

\* The pattern with its whole match, match[0], captured as one more group.
withWholeMatch(pattern, groups) == << <<Cap(groups + 1, <<Alt(pattern)>>)>> >>

\* What a sticky match leaves: lastIndex is the end of the match, or 0
\* after a failure.
stickyResult(m, groups, li) ==
  [m |-> m,
   lastIndex |-> IF m = Undefined THEN 0 ELSE li + Len(GroupText(m, groups + 1))]

\* str.match(pattern) for a RegExp object without the g flag
\* (RegExpBuiltinExec): without the y flag the search starts at 0 whatever
\* lastIndex is and lastIndex is not written; with it the match is tried
\* at lastIndex only and lastIndex is written.
exec(s, pattern, groups, flags, li) ==
  IF sticky(flags)
  THEN stickyResult(IF li > Len(s) THEN Undefined
                    ELSE MatchAt(withWholeMatch(pattern, groups), 1, s, li + 1,
                                 [g \in 1..(groups + 1) |-> Undefined]),
                    groups, li)
  ELSE [m |-> match(s, pattern, groups), lastIndex |-> li]

\* The four matches of "Extract entities", each with the lastIndex it
\* leaves in its pattern.
moduleMatches(q, li) ==
  [room   |-> exec(q, ROOM_ID_PATTERN, 2, PATTERN_FLAGS, li.room),
   region |-> exec(q, REGION_PATTERN, 2, PATTERN_FLAGS, li.region),
   level  |-> exec(q, SPELL_LEVEL_PATTERN, 2, PATTERN_FLAGS, li.level),
   cr     |-> exec(q, CR_PATTERN, 2, PATTERN_FLAGS, li.cr)]

\* The result of the call and the lastIndex of each pattern after it.
classifyWith(q, lowerQuery, ms) ==
  [result |->
     decide(entitiesOf(ms.room.m, ms.region.m, ms.level.m, ms.cr.m,
                       extractSpellName(q), extractMonsterName(q),
                       extractSearchTerms(q)),
            matchedKeywords(lowerQuery, STRUCTURED_KEYWORDS),
            detectEntities(splitWhitespace(lowerQuery), lowerQuery),
            matchedKeywords(lowerQuery, SEMANTIC_KEYWORDS)),
   lastIndex |->
     [room |-> ms.room.lastIndex, region |-> ms.region.lastIndex,
      level |-> ms.level.lastIndex, cr |-> ms.cr.lastIndex]]

\* The call with the keywords looked up in the query as typed.
classifyQueryCallAsTyped(q, li) == classifyWith(q, q, moduleMatches(q, li))

\* One call of classifyQuery in a process whose patterns have the
\* lastIndex li.
classifyQueryCall(q, li) == classifyWith(q, trim(toLowerCase(q)), moduleMatches(q, li))

---------------------------------------------------------------------------
(* GET /health                                                             *)
(*                                                                         *)
(* A JavaScript value is a record with its type in t: null, undefined, a   *)
(* boolean v, the health object of the vector or of the structured         *)
(* backend, or the object of the LLM probe with its property accessible.   *)

JsNull == [t |-> "null"]

JsUndefined == [t |-> "undefined"]

JsBool(b) == [t |-> "boolean", v |-> b]

\* The truth of a value in a condition.
truthy(x) ==
  CASE x.t = "boolean" -> x.v
    [] x.t \in {"null", "undefined"} -> FALSE
    [] OTHER -> TRUE

\* The probes, in the order of the array given to Promise.all.
ProbeNames == <<"rag", "sqlite", "srd", "llm">>

\* How the fetch of a probe ends: a 2xx answer, another answer, or no
\* answer (network failure, timeout).
FetchOutcomes == {"ok", "non2xx", "failed"}

\* checkSrdHealth that lets the failure of its fetch through.
checkSrdHealthNoCatch(fetched) ==
  IF fetched = "failed" THEN [state |-> "rejected", value |-> JsUndefined]
  ELSE [state |-> "fulfilled", value |-> JsBool(fetched = "ok")]

\* checkSrdHealth: response.ok, and false when fetch throws.
checkSrdHealth(fetched) ==
  [state |-> "fulfilled", value |-> JsBool(fetched = "ok")]

\* checkRagHealth and checkSqliteHealth: the health of the backend, or null
\* when it gave none.
checkBackendHealth(fetched) ==
  [state |-> "fulfilled",
   value |-> IF fetched = "ok" THEN [t |-> "health"] ELSE JsNull]

\* checkOpenRouterHealth: an object whose accessible tells whether the LLM
\* answered.
checkOpenRouterHealth(fetched) ==
  [state |-> "fulfilled", value |-> [t |-> "llm", accessible |-> fetched = "ok"]]

\* The promise of probe number idx once its fetch has ended.
settled(idx, fetched) ==
  CASE ProbeNames[idx] = "srd" -> checkSrdHealth(fetched)
    [] ProbeNames[idx] = "llm" -> checkOpenRouterHealth(fetched)
    [] OTHER -> checkBackendHealth(fetched)

\* Promise.all that stores a value at the place of its arrival.
gatherInArrivalOrder(vals, idx, x, arrived) == [vals EXCEPT ![arrived + 1] = x]

\* Promise.all, when the promise number idx of its array is fulfilled with
\* x after arrived others: x is stored at idx.
gather(vals, idx, x, arrived) == [vals EXCEPT ![idx] = x]

\* x.accessible; reading a property of null or undefined throws.
accessibleThrows(x) == x.t \in {"null", "undefined"}

accessible(x) == IF x.t = "llm" THEN JsBool(x.accessible) ELSE JsUndefined

\* const services = { rag, sqlite, srd, llm } of
\* [ragHealth, sqliteHealth, srdHealth, llmHealth] = vals.
servicesOf(vals) ==
  [rag    |-> JsBool(vals[1] # JsNull),
   sqlite |-> JsBool(vals[2] # JsNull),
   srd    |-> vals[3],
   llm    |-> accessible(vals[4])]

\* allHealthy that asks for the reference API as well.
allHealthyWithSrd(services) ==
  truthy(services.rag) /\ truthy(services.sqlite) /\ truthy(services.srd)
    /\ truthy(services.llm)

allHealthy(services) ==
  truthy(services.rag) /\ truthy(services.sqlite) /\ truthy(services.llm)

anyHealthy(services) == truthy(services.rag) \/ truthy(services.sqlite)

statusOf(services) ==
  IF allHealthy(services) THEN "ok"
  ELSE IF anyHealthy(services) THEN "degraded"
  ELSE "error"

\* The status code that is 200 for ok only.
statusCodeOkOnly(status) == IF status = "ok" THEN 200 ELSE 503

statusCode(status) == IF status = "error" THEN 503 ELSE 200

\* res.status(statusCode).json(response): the status and the services of
\* the body.
healthResponse(services) ==
  [statusCode |-> statusCode(statusOf(services)),
   json |-> [status |-> statusOf(services), services |-> services]]

\* No GET /health request.
HealthIdle ==
  /\ hpc = "idle"
  /\ probes = [i \in 1..Len(ProbeNames) |-> "notStarted"]
  /\ outcome = [i \in 1..Len(ProbeNames) |-> "none"]
  /\ order = <<>>
  /\ values = [i \in 1..Len(ProbeNames) |-> JsUndefined]
  /\ responses = <<>>

---------------------------------------------------------------------------
(* Lookups in the reference API (services/srd-client)                      *)
(*                                                                         *)
(* What a call gives is a record: threw tells whether it raised (for an    *)
(* async function: whether its promise was rejected), value is what it     *)
(* returned otherwise.                                                     *)

Gave(x) == [threw |-> FALSE, value |-> x]

Threw == [threw |-> TRUE, value |-> JsUndefined]

\* [a-z0-9]
IndexChars == CharsOf(LowerLetters) \cup Digits

\* .replace(/[^a-z0-9]/g, "-"): a hyphen for every character outside
\* [a-z0-9].
RECURSIVE hyphenateEach(_, _)
hyphenateEach(s, i) ==
  IF i > Len(s) THEN ""
  ELSE (IF CharAt(s, i) \in IndexChars THEN CharAt(s, i) ELSE "-") \o hyphenateEach(s, i + 1)

\* .replace(/[^a-z0-9]+/g, "-"): one hyphen for every maximal run of
\* characters outside [a-z0-9].
RECURSIVE hyphenate(_, _)
hyphenate(s, i) ==
  IF i > Len(s) THEN ""
  ELSE IF CharAt(s, i) \in IndexChars THEN CharAt(s, i) \o hyphenate(s, i + 1)
  ELSE IF i > 1 /\ CharAt(s, i - 1) \notin IndexChars THEN hyphenate(s, i + 1)
  ELSE "-" \o hyphenate(s, i + 1)

\* .replace(/^-|-$/g, ""): a hyphen at the start is removed, and so is a
\* hyphen at the end that is not that same character.
stripHyphens(s) ==
  SubSeq(s,
         IF Len(s) >= 1 /\ CharAt(s, 1) = "-" THEN 2 ELSE 1,
         IF Len(s) >= 2 /\ CharAt(s, Len(s)) = "-" THEN Len(s) - 1 ELSE Len(s))

\* nameToIndex without the + of its first pattern.
nameToIndexEachChar(name) == stripHyphens(hyphenateEach(toLowerCase(name), 1))

nameToIndex(name) == stripHyphens(hyphenate(toLowerCase(name), 1))

\* The functions getSrdSpell, getSrdMonster, getSrdClass, getSrdRace and
\* getSrdClassLevel, each with the path it fetches and the type it gives.
SrdKinds ==
  [getSrdSpell      |-> [path |-> "/spells/",   type |-> "spell"],
   getSrdMonster    |-> [path |-> "/monsters/", type |-> "monster"],
   getSrdClass      |-> [path |-> "/classes/",  type |-> "class"],
   getSrdRace       |-> [path |-> "/races/",    type |-> "race"],
   getSrdClassLevel |-> [path |-> "/classes/",  type |-> "class_level"]]

\* How the reference API answers a fetch: a 2xx answer with a JSON body (a
\* class level with no feature or with one), 404, another status, no
\* answer at all, or a 2xx answer whose body is not JSON.
Replies ==
  {[kind |-> "ok", features |-> 0], [kind |-> "ok", features |-> 1],
   [kind |-> "notFound", features |-> 0], [kind |-> "serverError", features |-> 0],
   [kind |-> "unreachable", features |-> 0], [kind |-> "invalidJson", features |-> 0]}

\* The body of srdFetch's try: fetch throws when there is no answer, 404
\* returns null, another status that is not ok throws, and response.json()
\* throws on a body that is not JSON.
tryFetch(answer, endpoint) ==
  CASE answer.kind = "unreachable" -> Threw
    [] answer.kind = "notFound" -> Gave(JsNull)
    [] answer.kind = "serverError" -> Threw
    [] answer.kind = "invalidJson" -> Threw
    [] answer.kind = "ok" ->
         Gave([t |-> "object", url |-> endpoint, features |-> answer.features])

\* srdFetch without its catch.
srdFetchNoCatch(answer, endpoint) == tryFetch(answer, endpoint)

\* srdFetch: what the try raises is caught and null is returned.
srdFetch(answer, endpoint) ==
  IF tryFetch(answer, endpoint).threw THEN Gave(JsNull) ELSE tryFetch(answer, endpoint)

\* The endpoint a lookup fetches.
endpointOf(what, idx) ==
  SrdKinds[what.fn].path \o idx
    \o (IF what.fn = "getSrdClassLevel" THEN "/levels/" \o what.level ELSE "")

\* A lookup after its await of srdFetch: it raises when srdFetch did, it
\* returns null when srdFetch gave null, and otherwise the formatted
\* record with its source.
afterFetch(what, idx, got) ==
  IF got.threw THEN Threw
  ELSE IF ~truthy(got.value) THEN Gave(JsNull)
  ELSE Gave([t |-> "object", type |-> SrdKinds[what.fn].type,
             url |-> "https://www.dnd5eapi.co/api/2014" \o endpointOf(what, idx),
             features |-> 0])

\* getSrdClassLevel after the await of the srdFetch of a feature: a feature
\* that was not fetched is left out.
afterFeature(record, got) ==
  IF got.threw THEN Threw
  ELSE Gave([record.value EXCEPT !.features = IF truthy(got.value) THEN 1 ELSE 0])

\* The functions searchSrdSpells and searchSrdMonsters, each with the path
\* of its list and the function that gets the details of a reference.
SearchKinds ==
  [searchSrdSpells   |-> [path |-> "/spells",   get |-> "getSrdSpell"],
   searchSrdMonsters |-> [path |-> "/monsters", get |-> "getSrdMonster"]]

\* The endpoint of the list: the path, and the query parameters if any.
listEndpoint(fn, queryParams) ==
  SearchKinds[fn].path \o (IF queryParams # "" THEN "?" \o queryParams ELSE "")

\* xs.slice(from, to) without its end: everything from from on.
sliceToEnd(xs, from, to) == SubSeq(xs, from + 1, Len(xs))

\* xs.slice(from, to) for 0 <= from <= to
slice(xs, from, to) == SubSeq(xs, from + 1, Min(to, Len(xs)))

\* The list a search has after its await of srdFetch: null when srdFetch
\* gave null, and otherwise the body of the answer with its results.
listOf(answer, got) ==
  IF truthy(got.value) THEN [t |-> "object", results |-> answer.results] ELSE JsNull

\* if (!list || !list.results.length) return [];
noResults(list) == ~truthy(list) \/ Len(list.results) = 0

\* The lookup that gets the details of a reference.
detailOf(fn, ref) == [fn |-> SearchKinds[fn].get, name |-> ref, level |-> ""]

\* No search.
NoSearch ==
  [fn |-> "none", queryParams |-> "", list |-> JsUndefined, at |-> 0, results |-> <<>>,
   details |-> <<>>]

\* No lookup.
SrdIdle ==
  /\ spc = "idle"
  /\ lookup = [fn |-> "none", name |-> "", level |-> ""]
  /\ index = ""
  /\ reindexed = ""
  /\ reply = [kind |-> "none", features |-> 0]
  /\ fetchResult = Gave(JsUndefined)
  /\ returned = Gave(JsUndefined)
  /\ search = NoSearch

---------------------------------------------------------------------------
(* The middleware chain of the server                                      *)
(*                                                                         *)
(* A request has a method, a path, the value of its Origin header (the     *)
(* empty string when it has none), a body that parses as JSON or does not, *)
(* and the address ip of its client.  A response has the status, the JSON  *)
(* body and the name of the middleware or handler that sent it.            *)

\* The origins allowed when the environment names none.
ALLOWED_ORIGINS ==
  {"https://mnehmos.github.io", "http://localhost:4321", "http://localhost:3000"}

\* The options of the limiter of /chat.
chatLimiter ==
  [windowMs |-> 60 * 1000,
   max |-> 30,
   message |-> [error |-> "Too many requests",
                message |-> "Please wait before making more requests",
                retryAfter |-> 60]]

\* An Error with its message; its stack starts with the message and goes
\* on with the frames.
Error(message) ==
  [message |-> message, stack |-> "Error: " \o message \o "\n    at file:///app/dist/index.js"]

\* cors with origin: true, which lets every origin through.
corsAllowsAny(origin) == TRUE

\* The origin callback of cors: no Origin header, or an allowed one.
corsAllows(origin) == origin = "" \/ origin \in ALLOWED_ORIGINS

\* The limiter mounted in front of every path.
limitedEverywhere(path) == TRUE

\* app.use('/chat', chatLimiter): the paths the limiter stands in front of.
limited(path) == path = "/chat" \/ (Len(path) > 5 /\ SubSeq(path, 1, 6) = "/chat/")

\* The global error handler that sends the stack of the error.
errorHandlerWithStack(err) ==
  [status |-> 500, by |-> "errorHandler",
   json |-> [error |-> "Internal Server Error", message |-> err.stack]]

\* The global error handler.
errorHandler(err) ==
  [status |-> 500, by |-> "errorHandler",
   json |-> [error |-> "Internal Server Error", message |-> err.message]]

\* The 404 handler.
notFound ==
  [status |-> 404, by |-> "notFound",
   json |-> [error |-> "Not Found",
             message |-> "The requested endpoint does not exist",
             endpoints |-> [health |-> "GET /health - Health check with service status",
                            status |-> "GET /status - Quick status without health checks",
                            chat |-> "POST /chat - Main chat endpoint"]]]

\* The chat router: POST /chat is answered, anything else under /chat is
\* passed on.
chatRouter(req) ==
  IF req.method = "POST" /\ req.path = "/chat"
  THEN [status |-> 200, by |-> "chatRouter", json |-> [answer |-> "..."]]
  ELSE notFound

\* The request gets as far as the limiter and the routes: cors lets its
\* origin through and does not answer it as a preflight, and express.json
\* parses its body.
passesMiddleware(req) ==
  corsAllows(req.origin) /\ req.method # "OPTIONS" /\ req.body # "malformed"

\* The response to a request, throttled telling whether the limiter has
\* counted more than max requests, and up whether the services answer the
\* probes of /health.
respond(req, throttled, up) ==
  IF ~corsAllows(req.origin) THEN errorHandler(Error("CORS: Origin not allowed"))
  ELSE IF req.method = "OPTIONS" THEN [status |-> 204, by |-> "cors", json |-> [a |-> 0]]
  ELSE IF req.body = "malformed"
       THEN errorHandler(Error("Unexpected token } in JSON at position 1"))
  ELSE IF limited(req.path) /\ throttled
       THEN [status |-> 429, by |-> "chatLimiter", json |-> chatLimiter.message]
  ELSE IF req.method = "GET" /\ req.path = "/health"
       THEN [status |-> statusCode(statusOf([rag |-> JsBool(up), sqlite |-> JsBool(up),
                                             srd |-> JsBool(up), llm |-> JsBool(up)])),
             by |-> "health",
             json |-> [status |-> statusOf([rag |-> JsBool(up), sqlite |-> JsBool(up),
                                            srd |-> JsBool(up), llm |-> JsBool(up)])]]
  ELSE IF limited(req.path) THEN chatRouter(req)
  ELSE IF req.method = "GET" /\ req.path = "/status"
       THEN [status |-> 200, by |-> "status",
             json |-> [service |-> "chat-api", status |-> "running"]]
  ELSE notFound

\* No request yet.
NoRequest ==
  [req |-> [method |-> "", path |-> "", origin |-> "", body |-> "", ip |-> ""],
   res |-> [status |-> 0, by |-> "", json |-> [a |-> 0]],
   reached |-> FALSE, before |-> 0, after |-> 0]

\* The addresses of the clients.
Clients == {"10.0.0.1", "10.0.0.2"}

\* A server that has handled no request.
HttpIdle ==
  /\ hits = [ip \in Clients |-> 0]
  /\ window = [ip \in Clients |-> 0]
  /\ passed = [ip \in Clients |-> 0]
  /\ latest = NoRequest

---------------------------------------------------------------------------
(* The queries of the model                                                *)

\* Fragments of queries: keywords of each table, entity vocabulary, room
\* ids and regions, stop words, and words none of the tables knows.
Fragments ==
  <<"list all", "which school", "what are", "explain the lore", "story guide",
    "describe", "spell", "A12", "area B", "region c", "The", "xa1">>

\* Characters of the character-built queries: letters in and out of A-D,
\* in both cases, a digit, the separators of a room id, and punctuation.
Alphabet == <<"a", "D", "x", "1", " ", "-", ".">>

\* The strings of at most n elements of xs, put together with sep.
RECURSIVE Built(_, _, _)
Built(xs, n, sep) ==
  IF n = 0 THEN {""}
  ELSE LET shorter == Built(xs, n - 1, sep)
       IN shorter \cup {IF s = "" THEN xs[i] ELSE s \o sep \o xs[i] :
                          s \in shorter, i \in 1..Len(xs)}

\* Whole queries: a spell level in both forms, a challenge rating with a
\* fraction, names for the two name heuristics (one of them blank), two
\* room ids in one query, separators inside a room id, surrounding
\* whitespace, an underscore and punctuation, a keyword twice.
Phrases ==
  {"level 3 spell A12", "3rd level", "CR 1/2 enemy", "facing orc b-7",
   "cast  1", "1  enemy", "d4 then A12", "c 07.B1", "  Area D  ",
   "fire_bolt (Evocation)", "A12 region B", "What are what are spells"}

Queries == Built(Fragments, MaxWords, " ") \cup Built(Alphabet, MaxChars, "") \cup Phrases

---------------------------------------------------------------------------
(* The state machine: one request                                          *)
(*                                                                         *)
(* query is the text of the request; result is what classifyQuery          *)
(* returned for it; searchTerms is what a direct call of                   *)
(* extractSearchTerms returned for it, and redistilled what the function   *)
(* returned for its own result.                                            *)

NoResult == [type |-> "none"]

\* No score computed yet.
NoScores == [structuredScore |-> 0, semanticScore |-> 0]

\* The lastIndex of a RegExp object when the module is loaded.
InitialLastIndex == [room |-> 0, region |-> 0, level |-> 0, cr |-> 0]

\* No call made yet.
SessionIdle ==
  /\ lastIndex = InitialLastIndex
  /\ calls = <<>>

Init ==
  /\ query \in Queries
  /\ pc = "received"
  /\ result = NoResult
  /\ searchTerms = ""
  /\ redistilled = ""
  /\ scores = NoScores
  /\ SessionIdle
  /\ HealthIdle
  /\ SrdIdle
  /\ HttpIdle

Classify ==
  /\ pc = "received"
  /\ result' = classifyQuery(query)
  /\ scores' = scoresOf(trim(toLowerCase(query)))
  /\ pc' = "classified"
  /\ UNCHANGED <<query, searchTerms, redistilled, sessionVars, healthVars, srdVars, httpVars>>

Distill ==
  /\ pc = "classified"
  /\ searchTerms' = extractSearchTerms(query)
  /\ pc' = "distilled"
  /\ UNCHANGED <<query, result, redistilled, scores, sessionVars, healthVars, srdVars, httpVars>>

Redistill ==
  /\ pc = "distilled"
  /\ redistilled' = extractSearchTerms(searchTerms)
  /\ pc' = "redistilled"
  /\ UNCHANGED <<query, result, searchTerms, scores, sessionVars, healthVars, srdVars, httpVars>>

Next == Classify \/ Distill \/ Redistill

Spec == Init /\ [][Next]_vars

---------------------------------------------------------------------------
(* The state machine of a process: one call of classifyQuery after another *)
(*                                                                         *)
(* JavaScript runs a call to its end before the next one starts, so a call *)
(* is one step.  calls holds each query with the result its call returned. *)

\* Number of calls of a process.
MaxCalls == 3

\* The queries of a process: every rule of the decision table, each of the
\* four module-level patterns matching and not matching, the empty query,
\* and some of them in another case or within whitespace.
SessionQueries ==
  {"", "A12", "tell me about room a-7", "area B", "list all spells",
   "level 3 spell", "cr 5 monster", "what is the lore",
   "a12", "  A12 ", "List All SPELLS"}

\* The classifier of the single request is not used.
ClassifierIdle ==
  /\ query = ""
  /\ pc = "idle"
  /\ result = NoResult
  /\ searchTerms = ""
  /\ redistilled = ""
  /\ scores = NoScores

SessionInit ==
  /\ SessionIdle
  /\ ClassifierIdle
  /\ HealthIdle
  /\ SrdIdle
  /\ HttpIdle

Returned(q, out) ==
  /\ calls' = Append(calls, [query |-> q, result |-> out.result])
  /\ lastIndex' = out.lastIndex

Call ==
  /\ Len(calls) < MaxCalls
  /\ \E q \in SessionQueries : Returned(q, classifyQueryCall(q, lastIndex))
  /\ UNCHANGED <<classifierVars, healthVars, srdVars, httpVars>>

SessionNext == Call

SessionSpec == SessionInit /\ [][SessionNext]_vars

---------------------------------------------------------------------------
(* The state machine of one GET /health request                            *)
(*                                                                         *)
(* The handler runs to its await in one step: the four probe functions are *)
(* called one after the other while the array of Promise.all is built, and *)
(* each returns its promise at its first await.  Then the fetches end in   *)
(* any order, and the handler resumes when Promise.all is settled.         *)

HealthInit ==
  /\ hpc = "received"
  /\ probes = [i \in 1..Len(ProbeNames) |-> "notStarted"]
  /\ outcome = [i \in 1..Len(ProbeNames) |-> "none"]
  /\ order = <<>>
  /\ values = [i \in 1..Len(ProbeNames) |-> JsUndefined]
  /\ responses = <<>>
  /\ ClassifierIdle
  /\ SessionIdle
  /\ SrdIdle
  /\ HttpIdle

\* The handler up to await Promise.all([...]).
StartProbes ==
  /\ hpc = "received"
  /\ probes' = [i \in 1..Len(ProbeNames) |-> "pending"]
  /\ hpc' = "awaiting"
  /\ UNCHANGED <<outcome, order, values, responses, classifierVars, sessionVars, srdVars, httpVars>>

\* The promise of probe idx settles as p.  A rejection rejects Promise.all:
\* the await throws, the handler has no try around it, and no response is
\* sent.
SettleAs(idx, fetched, p) ==
  /\ probes' = [probes EXCEPT ![idx] = p.state]
  /\ outcome' = [outcome EXCEPT ![idx] = fetched]
  /\ order' = Append(order, ProbeNames[idx])
  /\ IF p.state = "fulfilled"
     THEN /\ values' = gather(values, idx, p.value, Len(order))
          /\ hpc' = hpc
     ELSE /\ values' = values
          /\ hpc' = IF hpc = "awaiting" THEN "failed" ELSE hpc
  /\ UNCHANGED <<responses, classifierVars, sessionVars, srdVars, httpVars>>

\* The fetch of a pending probe ends.
Settle ==
  \E idx \in 1..Len(ProbeNames), fetched \in FetchOutcomes :
    /\ probes[idx] = "pending"
    /\ SettleAs(idx, fetched, settled(idx, fetched))

\* Promise.all is fulfilled when all four promises are: the handler builds
\* the response and sends it.
Respond ==
  /\ hpc = "awaiting"
  /\ \A idx \in 1..Len(ProbeNames) : probes[idx] = "fulfilled"
  /\ IF accessibleThrows(values[4])
     THEN /\ hpc' = "failed"
          /\ responses' = responses
     ELSE /\ hpc' = "responded"
          /\ responses' = Append(responses, healthResponse(servicesOf(values)))
  /\ UNCHANGED <<probes, outcome, order, values, classifierVars, sessionVars, srdVars, httpVars>>

HealthNext == StartProbes \/ Settle \/ Respond

\* Every fetch ends (an answer, an error or a timeout) and the event loop
\* runs every callback that is ready.
HealthSpec == HealthInit /\ [][HealthNext]_vars /\ WF_vars(HealthNext)

---------------------------------------------------------------------------
(* The state machine of one lookup in the reference API                    *)

\* Characters of names: letters of both cases, a digit, a space, a hyphen
\* and an apostrophe.
NameAlphabet == <<"a", "B", "1", " ", "-", "'">>

Names ==
  Built(NameAlphabet, MaxChars, "")
    \cup {"Magic Missile", "Bigby's Hand", " Half-Elf ", "fire--bolt", "Ancient_Red Dragon!"}

SrdInit ==
  /\ spc = "called"
  /\ lookup \in {[fn |-> f, name |-> n, level |-> IF f = "getSrdClassLevel" THEN "3" ELSE ""] :
                   f \in DOMAIN SrdKinds, n \in Names}
  /\ index = ""
  /\ reindexed = ""
  /\ reply = [kind |-> "none", features |-> 0]
  /\ fetchResult = Gave(JsUndefined)
  /\ returned = Gave(JsUndefined)
  /\ search = NoSearch
  /\ ClassifierIdle
  /\ SessionIdle
  /\ HealthIdle
  /\ HttpIdle

\* const index = nameToIndex(nameOrIndex); reindexed is the index of that
\* index, what a caller gets who passes an index instead of a name.
Resolve ==
  /\ spc = "called"
  /\ index' = nameToIndex(lookup.name)
  /\ reindexed' = nameToIndex(nameToIndex(lookup.name))
  /\ spc' = "fetching"
  /\ UNCHANGED <<lookup, reply, fetchResult, returned, search, classifierVars, sessionVars, healthVars, httpVars>>

\* The lookup resumes with what srdFetch gave: it returns, or, for a class
\* level with a feature, goes on to fetch the feature.
Resume(answer, got, record) ==
  /\ reply' = answer
  /\ fetchResult' = got
  /\ returned' = record
  /\ spc' = IF ~record.threw /\ truthy(record.value) /\ lookup.fn = "getSrdClassLevel"
               /\ answer.features > 0
            THEN "feature" ELSE "returned"

\* await srdFetch(endpoint) of the record.
Fetch ==
  /\ spc = "fetching"
  /\ \E answer \in Replies :
       Resume(answer, srdFetch(answer, endpointOf(lookup, index)),
              afterFetch(lookup, index, srdFetch(answer, endpointOf(lookup, index))))
  /\ UNCHANGED <<lookup, index, reindexed, search, classifierVars, sessionVars, healthVars, httpVars>>

\* await srdFetch(featureRef.url) in the loop of getSrdClassLevel.
FetchFeature ==
  /\ spc = "feature"
  /\ \E answer \in Replies :
       /\ fetchResult' = srdFetch(answer, "/features/f")
       /\ returned' = afterFeature(returned, srdFetch(answer, "/features/f"))
  /\ spc' = "returned"
  /\ UNCHANGED <<lookup, index, reindexed, reply, search, classifierVars, sessionVars, healthVars, httpVars>>

SrdNext == Resolve \/ Fetch \/ FetchFeature

SrdSpec == SrdInit /\ [][SrdNext]_vars

---------------------------------------------------------------------------
(* The state machine of one search in the reference API                    *)
(*                                                                         *)
(* search holds the function called with its query parameters, the list    *)
(* it got, the place of its loop in the top of that list, the results      *)
(* pushed so far, and for each detail fetch made the reference it was for  *)
(* and whether the API answered it with a record.                          *)

\* The largest number of references in a list response.
MaxRefs == 6

\* The indexes of the first n references of a list response.
Refs(n) == [k \in 1..n |-> "entry-" \o CharAt("123456789", k)]

\* How the reference API answers the fetch of a list: a 2xx answer with
\* the references found, none to MaxRefs of them, or one of the failures.
ListReplies ==
  {[kind |-> "ok", features |-> 0, results |-> Refs(n)] : n \in 0..MaxRefs}
  \cup
  {[kind |-> k, features |-> 0, results |-> <<>>] :
     k \in {"notFound", "serverError", "unreachable", "invalidJson"}}

SearchInit ==
  /\ spc = "searching"
  /\ search \in {[NoSearch EXCEPT !.fn = f, !.queryParams = q] :
                   f \in DOMAIN SearchKinds, q \in {"", "name=fire"}}
  /\ lookup = [fn |-> "none", name |-> "", level |-> ""]
  /\ index = ""
  /\ reindexed = ""
  /\ reply = [kind |-> "none", features |-> 0]
  /\ fetchResult = Gave(JsUndefined)
  /\ returned = Gave(JsUndefined)
  /\ ClassifierIdle
  /\ SessionIdle
  /\ HealthIdle
  /\ HttpIdle

\* The search resumes with the list srdFetch gave: it returns the empty
\* list, or starts on the top of the list.
Listed(answer, got, list) ==
  /\ reply' = [kind |-> answer.kind, features |-> answer.features]
  /\ fetchResult' = got
  /\ search' = [search EXCEPT !.list = list,
                              !.at = IF got.threw \/ noResults(list) THEN 0 ELSE 1]
  /\ spc' = IF got.threw \/ noResults(list) THEN "returned" ELSE "details"
  /\ returned' = IF got.threw THEN Threw
                 ELSE IF noResults(list) THEN Gave(<<>>) ELSE returned

\* const list = await srdFetch(endpoint)
FetchList ==
  /\ spc = "searching"
  /\ \E answer \in ListReplies :
       Listed(answer, srdFetch(answer, listEndpoint(search.fn, search.queryParams)),
              listOf(answer, srdFetch(answer, listEndpoint(search.fn, search.queryParams))))
  /\ UNCHANGED <<lookup, index, reindexed, classifierVars, sessionVars, healthVars, httpVars>>

\* One turn of the loop is over: the record the lookup gave is pushed if
\* there is one, and the loop goes on while the top of the list has more.
Pushed(ref, answer, record, results) ==
  /\ search' = [search EXCEPT !.at = @ + 1,
                              !.results = results,
                              !.details = Append(@, [ref |-> ref, ok |-> answer.kind = "ok"])]
  /\ spc' = IF ~record.threw /\ search.at < Len(slice(search.list.results, 0, 5))
            THEN "details" ELSE "returned"
  /\ returned' = IF record.threw THEN Threw
                 ELSE IF search.at < Len(slice(search.list.results, 0, 5)) THEN returned
                 ELSE Gave(results)

\* The lookup of a reference has its index and fetches it.
Looked(ref, what, idx, answer, got) ==
  /\ lookup' = what
  /\ index' = idx
  /\ reply' = answer
  /\ fetchResult' = got
  /\ Pushed(ref, answer, afterFetch(what, idx, got),
            IF ~afterFetch(what, idx, got).threw /\ truthy(afterFetch(what, idx, got).value)
            THEN Append(search.results, afterFetch(what, idx, got).value)
            ELSE search.results)

\* const result = await getSrdSpell(ref.index), or getSrdMonster, in the
\* loop over list.results.slice(0, 5).
FetchDetail ==
  /\ spc = "details"
  /\ \E answer \in Replies :
       Looked(slice(search.list.results, 0, 5)[search.at],
              detailOf(search.fn, slice(search.list.results, 0, 5)[search.at]),
              nameToIndex(slice(search.list.results, 0, 5)[search.at]),
              answer,
              srdFetch(answer,
                       endpointOf(detailOf(search.fn, slice(search.list.results, 0, 5)[search.at]),
                                  nameToIndex(slice(search.list.results, 0, 5)[search.at]))))
  /\ UNCHANGED <<reindexed, classifierVars, sessionVars, healthVars, httpVars>>

SearchNext == FetchList \/ FetchDetail

SearchSpec == SearchInit /\ [][SearchNext]_vars

---------------------------------------------------------------------------
(* The state machine of the server: one request after another              *)
(*                                                                         *)
(* The middleware of a request runs to its response in one step; the time  *)
(* between requests passes in steps of half a window.                      *)

\* Requests the limiter counts beyond its max in one window.
MaxOver == 2

\* The requests: every method on every path without an Origin header from
\* the first client, and from it also requests with an allowed and with a
\* foreign origin and requests whose body does not parse, and the two GET
\* routes asked for from a foreign origin; from the second client the
\* requests of the chat endpoint.
Requests ==
  {[method |-> m, path |-> p, origin |-> "", body |-> "json", ip |-> "10.0.0.1"] :
     m \in {"GET", "POST", "OPTIONS"}, p \in {"/health", "/status", "/chat", "/nowhere"}}
  \cup
  {[method |-> "POST", path |-> p, origin |-> o, body |-> b, ip |-> "10.0.0.1"] :
     p \in {"/chat", "/nowhere"},
     o \in {"https://mnehmos.github.io", "https://elsewhere.example"},
     b \in {"json", "malformed"}}
  \cup
  {[method |-> "GET", path |-> p, origin |-> "https://elsewhere.example", body |-> "json",
    ip |-> "10.0.0.1"] : p \in {"/health", "/status"}}
  \cup
  {[method |-> "POST", path |-> "/chat", origin |-> "", body |-> "json", ip |-> "10.0.0.2"]}

HttpInit ==
  /\ HttpIdle
  /\ ClassifierIdle
  /\ SessionIdle
  /\ HealthIdle
  /\ SrdIdle

\* The request is handled with counted telling whether the limiter counts
\* it, and n the number of requests the limiter has counted with it.
Handled(req, counted, n, up) ==
  /\ hits' = IF counted THEN [hits EXCEPT ![req.ip] = n] ELSE hits
  /\ window' = IF counted /\ window[req.ip] = 0
               THEN [window EXCEPT ![req.ip] = chatLimiter.windowMs] ELSE window
  /\ passed' = IF counted /\ n <= chatLimiter.max
               THEN [passed EXCEPT ![req.ip] = @ + 1] ELSE passed
  /\ latest' = [req |-> req,
                res |-> respond(req, n > chatLimiter.max, up),
                reached |-> counted /\ n <= chatLimiter.max,
                before |-> hits[req.ip],
                after |-> IF counted THEN n ELSE hits[req.ip]]

\* A request arrives and is answered.
Handle ==
  /\ \E req \in Requests, up \in BOOLEAN :
       /\ up \/ req.path = "/health"
       /\ hits[req.ip] < chatLimiter.max + MaxOver
       /\ Handled(req, passesMiddleware(req) /\ limited(req.path), hits[req.ip] + 1, up)
  /\ UNCHANGED <<classifierVars, sessionVars, healthVars, srdVars>>

\* Half a window of time passes; a window that ends takes its count with
\* it.
Tick ==
  /\ \E ip \in Clients : window[ip] > 0
  /\ window' = [ip \in Clients |->
                  IF window[ip] > chatLimiter.windowMs \div 2
                  THEN window[ip] - chatLimiter.windowMs \div 2 ELSE 0]
  /\ hits' = [ip \in Clients |->
                IF window[ip] > chatLimiter.windowMs \div 2 THEN hits[ip] ELSE 0]
  /\ passed' = [ip \in Clients |->
                  IF window[ip] > chatLimiter.windowMs \div 2 THEN passed[ip] ELSE 0]
  /\ UNCHANGED <<latest, classifierVars, sessionVars, healthVars, srdVars>>

HttpNext == Handle \/ Tick

HttpSpec == HttpInit /\ [][HttpNext]_vars

---------------------------------------------------------------------------
(* What the properties below read off the query itself                     *)

\* The request has been classified: result holds classifyQuery(query).
Classified == pc \in {"classified", "distilled", "redistilled"}

\* extractSearchTerms(query) has returned into searchTerms.
Distilled == pc \in {"distilled", "redistilled"}

\* The numbers of the keywords of a list that occur in the lower-cased query.
KeywordHits(q, keywords) ==
  LET l == toLowerCase(q) IN {n \in 1..Len(keywords) : includes(l, keywords[n])}

\* The entity categories with a vocabulary word occurring in the query.
DetectedCategories(q) ==
  LET l == toLowerCase(q)
  IN {c \in DOMAIN ENTITY_KEYWORDS :
        \E n \in 1..Len(ENTITY_KEYWORDS[c]) : includes(l, ENTITY_KEYWORDS[c][n])}

\* The two scores as section 4.1 of the specification defines them, in halves.
SpecStructuredScore(q) ==
  2 * Cardinality(KeywordHits(q, STRUCTURED_KEYWORDS)) + Cardinality(DetectedCategories(q))

SpecSemanticScore(q) == 2 * Cardinality(KeywordHits(q, SEMANTIC_KEYWORDS))

\* The two score rules of the decision table.
SpecStructuredRule(q) ==
  SpecStructuredScore(q) > SpecSemanticScore(q) /\ SpecStructuredScore(q) >= 4

SpecMixedRule(q) == SpecStructuredScore(q) > 0 /\ SpecSemanticScore(q) > 0

\* Neither a room id nor a region was extracted.
NoRoomOrRegion ==
  result.extractedEntities.roomId = Undefined /\ result.extractedEntities.region = Undefined

\* The elements of a sequence.
Elements(xs) == {xs[n] : n \in 1..Len(xs)}

\* The query contains a letter A-D (of either case) followed by a digit,
\* that is <letter A-D><1-3 digits> somewhere in its text.
ContainsRoomPattern(q) ==
  \E i \in 1..(Len(q) - 1) : CharAt(q, i) \in RegionLetters /\ CharAt(q, i + 1) \in Digits

\* The query contains <letter A-D><1-3 digits> as a whole word: no letter,
\* digit or underscore stands right before the letter or right after the
\* digits.
ContainsRoomIdWord(q) ==
  \E i \in 1..Len(q), n \in 1..3 :
    /\ i + n <= Len(q)
    /\ CharAt(q, i) \in RegionLetters
    /\ i = 1 \/ CharAt(q, i - 1) \notin WordChars
    /\ \A d \in 1..n : CharAt(q, i + d) \in Digits
    /\ i + n = Len(q) \/ CharAt(q, i + n + 1) \notin WordChars

\* The query contains the word region or area, then any whitespace, then a
\* letter A-D that ends a word.
ContainsRegionPhrase(q) ==
  \E i \in 1..Len(q), w \in {"region", "area"} :
    /\ i + Len(w) <= Len(q)
    /\ i = 1 \/ CharAt(q, i - 1) \notin WordChars
    /\ toLowerCase(SubSeq(q, i, i + Len(w) - 1)) = w
    /\ \E k \in 0..(Len(q) - i - Len(w)) :
         /\ \A d \in 0..(k - 1) : CharAt(q, i + Len(w) + d) \in Whitespace
         /\ CharAt(q, i + Len(w) + k) \in RegionLetters
         /\ i + Len(w) + k = Len(q) \/ CharAt(q, i + Len(w) + k + 1) \notin WordChars

\* The tokens of a query: the maximal runs of letters, digits and
\* underscores of its lower-cased text.
Tokens(q) ==
  LET l == toLowerCase(q)
      starts == {i \in 1..Len(l) :
                   /\ CharAt(l, i) \in WordChars
                   /\ i = 1 \/ CharAt(l, i - 1) \notin WordChars}
  IN {SubSeq(l, i, i + RunLength(l, i, WordChars) - 1) : i \in starts}

\* Filtering removes every token of the query.
NoTokenSurvives(q) == \A tok \in Tokens(q) : Len(tok) <= 1 \/ tok \in stopWords

\* The largest structuredScore (in halves) any query can reach.
MaxStructuredScore == 2 * Len(STRUCTURED_KEYWORDS) + Len(ENTITY_TYPES)

---------------------------------------------------------------------------
(* Properties                                                              *)

\* C1: every classification routes to both backends: the rag flag and the
\* sqlite flag of the routing directive are both true, whichever rule
\* decided.
C1_BothBackends == Classified => result.routing.rag /\ result.routing.sqlite

\* A query decided by the default rule, with both flags set.
C1_Witness ==
  /\ Classified
  /\ result.type = "semantic"
  /\ result.routing.rag /\ result.routing.sqlite

\* C2 as stated: every query that contains <letter A-D><1-3 digits> is
\* classified hybrid with confidence 0.9 and the endpoints {rooms}.
C2_AnyRoomPattern ==
  Classified /\ ContainsRoomPattern(query) =>
    /\ result.type = "hybrid"
    /\ result.confidence = 90
    /\ result.routing.sqliteEndpoints = <<"rooms">>

\* C2, amended: every query that contains <letter A-D><1-3 digits> as a
\* whole word is classified hybrid with confidence 0.9 and the endpoints
\* exactly {rooms}, whatever keywords it also contains.
C2_RoomIdWord ==
  Classified /\ ContainsRoomIdWord(query) =>
    /\ result.type = "hybrid"
    /\ result.confidence = 90
    /\ result.routing.sqliteEndpoints = <<"rooms">>

\* A room id next to structured keywords that alone would decide otherwise.
C2_Witness ==
  /\ Classified
  /\ ContainsRoomIdWord(query)
  /\ SpecStructuredRule(query)
  /\ result.type = "hybrid" /\ result.confidence = 90

\* C3: a query with a region extracted and no room id is classified hybrid
\* with confidence 0.8, both backends and the endpoints exactly {rooms};
\* and the word region or area followed by a letter A-D does extract a
\* region.
C3_RegionOnly ==
  /\ Classified /\ ContainsRegionPhrase(query) => result.extractedEntities.region # Undefined
  /\ Classified
       /\ result.extractedEntities.region # Undefined
       /\ result.extractedEntities.roomId = Undefined
     => /\ result.type = "hybrid"
        /\ result.confidence = 80
        /\ result.routing.rag /\ result.routing.sqlite
        /\ result.routing.sqliteEndpoints = <<"rooms">>

\* A region phrase without a room id, next to keywords that alone would
\* make the query structured.
C3_Witness ==
  /\ Classified
  /\ ContainsRegionPhrase(query)
  /\ result.extractedEntities.region # Undefined
  /\ result.extractedEntities.roomId = Undefined
  /\ SpecStructuredRule(query)
  /\ result.confidence = 80

\* C4 as stated: every query with at least two distinct structured
\* keywords and no room or region match is classified structured.
C4_TwoKeywordsStructured ==
  Classified /\ NoRoomOrRegion
    /\ Cardinality(KeywordHits(query, STRUCTURED_KEYWORDS)) >= 2
  => result.type = "structured"

\* C4, amended: every query with at least two distinct structured
\* keywords, no room or region match and a structuredScore above its
\* semanticScore is classified structured.
C4_TwoKeywordsAboveSemantic ==
  Classified /\ NoRoomOrRegion
    /\ Cardinality(KeywordHits(query, STRUCTURED_KEYWORDS)) >= 2
    /\ SpecStructuredScore(query) > SpecSemanticScore(query)
  => result.type = "structured"

\* Two structured keywords that outweigh a semantic keyword also present.
C4_Witness ==
  /\ Classified /\ NoRoomOrRegion
  /\ Cardinality(KeywordHits(query, STRUCTURED_KEYWORDS)) >= 2
  /\ SpecSemanticScore(query) > 0
  /\ SpecStructuredScore(query) > SpecSemanticScore(query)
  /\ result.type = "structured"

\* C5: a structured result has confidence min(0.95, 0.6 + 0.1 *
\* structuredScore), which lies between 0.8 and 0.95, and that confidence
\* never decreases when the score grows.
C5_StructuredConfidence ==
  /\ Classified /\ result.type = "structured" =>
       /\ result.confidence = Min(95, 60 + 5 * SpecStructuredScore(query))
       /\ result.confidence >= 80
       /\ result.confidence <= 95
  /\ \A a \in 1..MaxStructuredScore : structuredConfidence(a - 1) <= structuredConfidence(a)

\* A structured result whose score is high enough for the cap to cut.
C5_Witness ==
  /\ Classified
  /\ result.type = "structured"
  /\ 60 + 5 * SpecStructuredScore(query) > 95
  /\ result.confidence = 95

C9_NeverEmpty ==
  Distilled /\ query # "" =>
    /\ searchTerms # ""
    /\ NoTokenSurvives(query) => searchTerms = query

\* A query of stop words only, with an upper-case letter, returned as typed.
C9_Witness ==
  /\ Distilled
  /\ query # ""
  /\ NoTokenSurvives(query)
  /\ Tokens(query) # {}
  /\ query # toLowerCase(query)
  /\ searchTerms = query

\* C10: extractSearchTerms applied to its own result returns that result,
\* also when the first application fell back to the query.
C10_Idempotent == pc = "redistilled" => redistilled = searchTerms

\* A second application after a first one that fell back to a query with
\* upper-case letters and stop words.
C10_Witness ==
  /\ pc = "redistilled"
  /\ NoTokenSurvives(query)
  /\ Tokens(query) # {}
  /\ query # toLowerCase(query)
  /\ searchTerms = query
  /\ redistilled = searchTerms

---------------------------------------------------------------------------
(* C11 and C12                                                             *)

\* C11: classifyQuery is deterministic and free of side effects: two calls
\* of a process with the same query return equal results whatever was
\* classified before or in between, each result is the one a call in a
\* freshly loaded process returns, and no call moves the lastIndex of a
\* module-level pattern.
C11_Deterministic ==
  /\ \A i, j \in 1..Len(calls) :
       calls[i].query = calls[j].query => calls[i].result = calls[j].result
  /\ \A i \in 1..Len(calls) : calls[i].result = classifyQuery(calls[i].query)
  /\ lastIndex = InitialLastIndex

\* A room query is classified, another query after it, and the room query
\* again.
C11_Witness ==
  /\ Len(calls) = 3
  /\ calls[1].query = "A12" /\ calls[2].query = "area B" /\ calls[3].query = "A12"
  /\ calls[1].result.extractedEntities.roomId = Some("A12")
  /\ calls[3].result = calls[1].result

\* C12: classification never fails: every query, the empty and the
\* whitespace-only ones included, gets a result whose type is semantic,
\* structured or hybrid and whose confidence lies between 0.6 and 0.95,
\* hence in [0, 1] and never the initial 0.5.
C12_AlwaysClassified ==
  Classified =>
    /\ result.type \in {"semantic", "structured", "hybrid"}
    /\ result.confidence >= 60 /\ result.confidence <= 95
    /\ result.confidence # 50

\* A query of whitespace only is classified, with the lowest confidence.
C12_Witness ==
  /\ Classified
  /\ query # "" /\ trim(query) = ""
  /\ result.type = "semantic"
  /\ result.confidence = 60

---------------------------------------------------------------------------
(* C13 to C16: GET /health                                                 *)

\* The handler has sent its response.
Responded == hpc = "responded"

\* The fetch of the probe of a service got a 2xx answer.
Reachable(name) == \E idx \in 1..Len(ProbeNames) : ProbeNames[idx] = name /\ outcome[idx] = "ok"

\* The fetch of the probe of a service has ended without a 2xx answer.
Failed(name) ==
  \E idx \in 1..Len(ProbeNames) :
    ProbeNames[idx] = name /\ outcome[idx] \in {"non2xx", "failed"}

\* C13 as stated: the status is ok if and only if rag, sqlite, srd and the
\* LLM are all reachable.
C13_OkIffAllFour ==
  Responded =>
    (responses[1].json.status = "ok"
       <=> Reachable("rag") /\ Reachable("sqlite") /\ Reachable("srd") /\ Reachable("llm"))

\* C13 amended: the status is ok if and only if rag, sqlite and the LLM are
\* reachable, whether srd is reachable or not.
C13_OkIffRagSqliteLlm ==
  Responded =>
    (responses[1].json.status = "ok"
       <=> Reachable("rag") /\ Reachable("sqlite") /\ Reachable("llm"))

\* The status is ok although srd is not reachable.
C13_Witness ==
  /\ Responded
  /\ responses[1].json.status = "ok"
  /\ Failed("srd")
  /\ responses[1].json.services.srd = JsBool(FALSE)

\* C14: a status other than ok is degraded when rag or sqlite is reachable
\* and error otherwise, whatever srd and the LLM are; the status code is
\* 503 exactly for error and 200 for ok and degraded.
C14_DegradedOrError ==
  Responded =>
    /\ responses[1].json.status \in {"ok", "degraded", "error"}
    /\ responses[1].json.status # "ok" =>
         (responses[1].json.status = "degraded"
            <=> Reachable("rag") \/ Reachable("sqlite"))
    /\ responses[1].statusCode = 503 <=> responses[1].json.status = "error"
    /\ responses[1].json.status \in {"ok", "degraded"} => responses[1].statusCode = 200

\* A degraded response with status code 200: one backend is reachable, the
\* other is not, and the LLM is.
C14_Witness ==
  /\ Responded
  /\ Failed("rag") /\ Reachable("sqlite") /\ Reachable("llm")
  /\ responses[1].json.status = "degraded"
  /\ responses[1].statusCode = 200

\* What C15 asks of every state: at most one response; a response sent is
\* the only one and reports every failed probe as false in services;
\* checkSrdHealth never rejects and gives false for every fetch that failed.
C15_Safe ==
  /\ Len(responses) <= 1
  /\ hpc # "failed"
  /\ Responded =>
       /\ Len(responses) = 1
       /\ \A name \in {"rag", "sqlite", "srd", "llm"} :
            Failed(name) => responses[1].json.services[name] = JsBool(FALSE)
  /\ probes[3] # "rejected"
  /\ (probes[3] = "fulfilled" /\ outcome[3] # "ok") => values[3] = JsBool(FALSE)

C16_ScatterGather ==
  /\ hpc = "received" => \A idx \in 1..Len(ProbeNames) : probes[idx] = "notStarted"
  /\ hpc # "received" => \A idx \in 1..Len(ProbeNames) : probes[idx] # "notStarted"
  /\ Len(responses) > 0 =>
       \A idx \in 1..Len(ProbeNames) : probes[idx] \notin {"notStarted", "pending"}
  /\ Responded =>
       /\ responses[1].json.services =
            [rag    |-> JsBool(Reachable("rag")),
             sqlite |-> JsBool(Reachable("sqlite")),
             srd    |-> JsBool(Reachable("srd")),
             llm    |-> JsBool(Reachable("llm"))]
       /\ responses[1].json.status =
            IF Reachable("rag") /\ Reachable("sqlite") /\ Reachable("llm") THEN "ok"
            ELSE IF Reachable("rag") \/ Reachable("sqlite") THEN "degraded"
            ELSE "error"

\* The probes ended in the reverse of the order they were started in, some
\* reachable and some not, and the response names each service rightly.
C16_Witness ==
  /\ Responded
  /\ order = <<"llm", "srd", "sqlite", "rag">>
  /\ Failed("rag") /\ Reachable("sqlite") /\ Failed("srd") /\ Reachable("llm")
  /\ responses[1].json.services.rag = JsBool(FALSE)
  /\ responses[1].json.services.llm = JsBool(TRUE)

---------------------------------------------------------------------------
(* C17 and C18: lookups in the reference API                               *)

\* The API did not answer the fetch of the record with a JSON body.
NoRecord == reply.kind \in {"notFound", "serverError", "unreachable", "invalidJson"}

\* C17: srdFetch never raises, and gives null when the API answers 404 or
\* another status that is not 2xx, does not answer, or answers with a body
\* that is not JSON; each of the five lookups then returns null as well,
\* and none of them raises.
C17_NullNotRaise ==
  /\ ~fetchResult.threw
  /\ ~returned.threw
  /\ (spc = "returned" /\ NoRecord) =>
       /\ fetchResult = Gave(JsNull)
       /\ returned = Gave(JsNull)

\* A class level was looked up, the API answered with a body that is not
\* JSON, and the lookup returned null.
C17_Witness ==
  /\ spc = "returned"
  /\ lookup.fn = "getSrdClassLevel"
  /\ reply.kind = "invalidJson"
  /\ returned = Gave(JsNull)

\* The maximal runs of characters of [a-z0-9] of s from position i on.
RECURSIVE IndexRuns(_, _)
IndexRuns(s, i) ==
  IF i > Len(s) THEN <<>>
  ELSE IF CharAt(s, i) \notin IndexChars THEN IndexRuns(s, i + 1)
  ELSE <<SubSeq(s, i, i + RunLength(s, i, IndexChars) - 1)>>
         \o IndexRuns(s, i + RunLength(s, i, IndexChars))

\* C18: the index of a name is the lower-cased name with every maximal run
\* of characters outside [a-z0-9] replaced by one hyphen and without a
\* hyphen at its start or end: it holds characters of [a-z0-9-] only, does
\* not start or end with a hyphen, has no two hyphens in a row, and is its
\* own index.
C18_Index ==
  spc # "idle" /\ spc # "called" =>
    /\ index = join(IndexRuns(toLowerCase(lookup.name), 1), "-")
    /\ \A i \in 1..Len(index) : CharAt(index, i) \in IndexChars \cup {"-"}
    /\ Len(index) > 0 => CharAt(index, 1) # "-" /\ CharAt(index, Len(index)) # "-"
    /\ \A i \in 1..(Len(index) - 1) : ~(CharAt(index, i) = "-" /\ CharAt(index, i + 1) = "-")
    /\ reindexed = index

\* A name with upper-case letters, an underscore, a space and punctuation
\* at its end has been turned into its index.
C18_Witness ==
  /\ spc = "fetching"
  /\ lookup.name = "Ancient_Red Dragon!"
  /\ index = "ancient-red-dragon"
  /\ reindexed = index

---------------------------------------------------------------------------
(* C19 and C20: the 404 handler, the error handler and the limiter         *)

\* A request has been answered.
Answered == latest.req.method # ""

\* No route is registered for the method and the path of the request: the
\* routes are GET /health, GET /status and POST /chat.
NoRoute(req) ==
  ~ \/ (req.method = "GET" /\ req.path \in {"/health", "/status"})
    \/ (req.method = "POST" /\ req.path = "/chat")

\* The response of the error handler is 500 with a body of error and
\* message only, the message that of the error and nothing of its stack.
ErrorEnvelope(res) ==
  /\ res.status = 500
  /\ DOMAIN res.json = {"error", "message"}
  /\ res.json.error = "Internal Server Error"
  /\ ~includes(res.json.message, "    at ")
  /\ ~corsAllows(latest.req.origin) => res.json.message = "CORS: Origin not allowed"

Further == Answered /\ limited(latest.req.path) /\ latest.before >= chatLimiter.max

\* What C20 says of the requests that pass and of /health and /status: at
\* most 30 requests of a client reach the chat router in one window, and a
\* request to /health or /status is neither throttled nor counted.
C20_AtMostMax ==
  /\ \A ip \in Clients : passed[ip] <= 30 /\ passed[ip] <= hits[ip]
  /\ (Answered /\ latest.reached) => latest.after <= 30
  /\ (Answered /\ latest.req.path \in {"/health", "/status"}) =>
       /\ latest.res.by # "chatLimiter"
       /\ latest.res.status # 429
       /\ latest.after = latest.before

\* C20 as stated: at most 30 requests per client and window reach the chat
\* router, every further request of the window gets the envelope with
\* retryAfter 60 and does not reach the router, and /health and /status
\* are neither throttled nor counted.
C20_EveryFurtherThrottled ==
  /\ C20_AtMostMax
  /\ Further =>
       /\ latest.res.json = [error |-> "Too many requests",
                             message |-> "Please wait before making more requests",
                             retryAfter |-> 60]
       /\ ~latest.reached

\* C20 amended: the further requests that get the envelope are those that
\* come as far as the limiter; no further request reaches the router.
C20_FurtherThrottled ==
  /\ C20_AtMostMax
  /\ Further => ~latest.reached
  /\ (Further /\ passesMiddleware(latest.req)) =>
       /\ latest.res.json = [error |-> "Too many requests",
                             message |-> "Please wait before making more requests",
                             retryAfter |-> 60]
       /\ latest.after = latest.before + 1

\* The first client has had 30 requests reach the router in this window
\* and its next one has got the envelope, while the second client is still
\* served.
C20_Witness ==
  /\ passed["10.0.0.1"] = 30
  /\ latest.req.ip = "10.0.0.1" /\ latest.req.path = "/chat" /\ latest.req.method = "POST"
  /\ latest.before = 30
  /\ latest.res.by = "chatLimiter"
  /\ latest.res.json.retryAfter = 60
  /\ ~latest.reached
  /\ passed["10.0.0.2"] \in 1..29

---------------------------------------------------------------------------
(* C21 to C28: the classifier                                              *)

\* C21: whenever classifyQuery extracts a room id, extractedEntities.region
\* is set and equals the letter of that room id, whatever else the query
\* contains.
C21_RegionIsRoomLetter ==
  Classified /\ result.extractedEntities.roomId # Undefined =>
    result.extractedEntities.region = Some(CharAt(result.extractedEntities.roomId[1], 1))

\* One of the patterns of a name heuristic matches the query.
SomePatternMatches(q, patterns) ==
  \E n \in 1..Len(patterns) : match(q, patterns[n], 1) # Undefined

\* What the first pattern of a name heuristic that matches the query
\* captures is not blank.
FirstCaptureNotBlank(q, patterns) ==
  LET hit == {n \in 1..Len(patterns) : match(q, patterns[n], 1) # Undefined}
  IN /\ hit # {}
     /\ LET first == CHOOSE n \in hit : \A k \in hit : n <= k
            name  == GroupText(match(q, patterns[first], 1), 1)
        IN \E i \in 1..Len(name) : CharAt(name, i) \notin Whitespace

\* The part of C22 about the fields with one pattern each and about the
\* search terms.
C22_PatternFields ==
  /\ result.extractedEntities.roomId # Undefined <=> match(query, ROOM_ID_PATTERN, 2) # Undefined
  /\ result.extractedEntities.level # Undefined <=> match(query, SPELL_LEVEL_PATTERN, 2) # Undefined
  /\ result.extractedEntities.cr # Undefined <=> match(query, CR_PATTERN, 2) # Undefined
  /\ result.extractedEntities.searchTerms # Undefined
  /\ Distilled => result.extractedEntities.searchTerms = Some(searchTerms)

\* C22 as stated: entity extraction and search-term distillation do not
\* depend on the rule that decides: each of roomId, level, cr, spellName
\* and monsterName is set exactly when its own pattern matches the query,
\* and searchTerms is in every result and equals extractSearchTerms(query).
C22_SetWhenPatternMatches ==
  Classified =>
    /\ C22_PatternFields
    /\ result.extractedEntities.spellName # Undefined <=> SomePatternMatches(query, spellPatterns)
    /\ result.extractedEntities.monsterName # Undefined
         <=> SomePatternMatches(query, monsterPatterns)

\* C22 amended: a name is set exactly when the first of its patterns that
\* matches the query captures a name that is not blank.
C22_SetWhenNameCaptured ==
  Classified =>
    /\ C22_PatternFields
    /\ result.extractedEntities.spellName # Undefined
         <=> FirstCaptureNotBlank(query, spellPatterns)
    /\ result.extractedEntities.monsterName # Undefined
         <=> FirstCaptureNotBlank(query, monsterPatterns)

\* A result decided by the room rule that carries a level, a spell name and
\* the search terms as well.
C22_Witness ==
  /\ Distilled
  /\ result.confidence = 90
  /\ result.extractedEntities.roomId = Some("A12")
  /\ result.extractedEntities.level = Some(3)
  /\ result.extractedEntities.spellName # Undefined
  /\ result.extractedEntities.searchTerms = Some(searchTerms)

\* C23: the rules are applied in the order room id, region, structured,
\* mixed, semantic, and the first that matches alone decides, so the result
\* names its rule: a structured or semantic result has neither a room id
\* nor a region; a hybrid result has confidence 0.9 iff a room id is set,
\* 0.8 iff a region is set without a room id, and 0.7 iff neither is set;
\* and a result with a room id or a region is the result of its
\* short-circuit whatever the keyword scores are.
C23_FirstRuleDecides ==
  Classified =>
    /\ result.type \in {"structured", "semantic"} => NoRoomOrRegion
    /\ result.type = "hybrid" =>
         /\ result.confidence = 90 <=> result.extractedEntities.roomId # Undefined
         /\ result.confidence = 80 <=>
              /\ result.extractedEntities.region # Undefined
              /\ result.extractedEntities.roomId = Undefined
         /\ result.confidence = 70 <=> NoRoomOrRegion
    /\ ~NoRoomOrRegion =>
         /\ result.type = "hybrid"
         /\ result.confidence \in {80, 90}
         /\ result.routing = roomsRouting

\* A region without a room id in a query whose scores alone would make it
\* structured with three endpoints: the region rule has decided.
C23_Witness ==
  /\ Classified
  /\ result.extractedEntities.region # Undefined
  /\ result.extractedEntities.roomId = Undefined
  /\ SpecStructuredRule(query)
  /\ Cardinality(DetectedCategories(query)) >= 2
  /\ result.type = "hybrid"
  /\ result.confidence = 80
  /\ result.routing.sqliteEndpoints = <<"rooms">>

\* C24: structuredScore is the number of distinct structured keywords that
\* occur in the lower-cased query plus 0.5 for each of the four entity
\* categories with a vocabulary word occurring in it, and semanticScore is
\* the number of distinct semantic keywords occurring in it: a keyword
\* counts once however often it occurs, a category adds 0.5 once however
\* many of its words occur, and each score is computed without regard to
\* the other (scores in halves).
C24_Scores ==
  Classified =>
    /\ scores.structuredScore =
         2 * Cardinality(KeywordHits(query, STRUCTURED_KEYWORDS))
           + Cardinality(DetectedCategories(query))
    /\ scores.semanticScore = 2 * Cardinality(KeywordHits(query, SEMANTIC_KEYWORDS))

\* A query in which a phrase of both lists occurs twice and two words of
\* one category occur: the phrase adds 1 to each score and the category
\* 0.5 to the structured one.
C24_Witness ==
  /\ Classified
  /\ includes(toLowerCase(query), "what are what are")
  /\ \E c \in DOMAIN ENTITY_KEYWORDS :
       Cardinality({n \in 1..Len(ENTITY_KEYWORDS[c]) :
                      includes(toLowerCase(query), ENTITY_KEYWORDS[c][n])}) >= 2
  /\ scores.semanticScore >= 2
  /\ scores.structuredScore >= 3

\* The punctuation characters of ASCII (all but the backslash and the
\* backquote).
Punctuation ==
  {"!", "#", "$", "%", "&", "'", "(", ")", "*", "+", ",", "-", ".", "/", ":", ";",
   "<", "=", ">", "?", "@", "[", "]", "^", "_", "{", "|", "}", "~", "\""}

\* s from its i-th character on, with a space for each character of chars.
RECURSIVE BlankOut(_, _, _)
BlankOut(s, i, chars) ==
  IF i > Len(s) THEN ""
  ELSE (IF CharAt(s, i) \in chars THEN " " ELSE CharAt(s, i)) \o BlankOut(s, i + 1, chars)

\* The tokens of the lower-cased query with the characters of chars
\* stripped that are longer than one character and no stop words, in the
\* order of the query.
SurvivingTokens(q, chars) ==
  SelectSeq(splitWhitespace(BlankOut(toLowerCase(q), 1, chars)),
            LAMBDA tok : Len(tok) > 1 /\ tok \notin stopWords)

\* What C25 says of the result, for the characters that are stripped.
SurvivorsJoined(chars) ==
  LET survivors == SurvivingTokens(query, chars)
  IN Distilled /\ survivors # <<>> =>
       /\ searchTerms = join(survivors, " ")
       /\ \A n \in 1..Len(splitWhitespace(searchTerms)) :
            /\ splitWhitespace(searchTerms)[n] \notin stopWords
            /\ Len(splitWhitespace(searchTerms)[n]) > 1
       /\ \A i \in 1..Len(searchTerms) :
            CharAt(searchTerms, i) \notin CharsOf(UpperLetters) \cup chars
       /\ \A n \in 1..Len(survivors) :
            arrayIncludes(splitWhitespace(searchTerms), survivors[n])

\* C25: when a token survives filtering, extractSearchTerms returns the
\* surviving tokens of the lower-cased, punctuation-stripped query in their
\* order, joined by single spaces: no stop word, no token of length 1 or
\* less, no upper-case letter and no punctuation is in the result, and
\* every token of the query longer than one character that is no stop word
\* is.
C25_SurvivingTokens == SurvivorsJoined(Punctuation)

\* The places <<i, sep, n>> of a query where a room id stands as a whole
\* word: a letter A-D at i with no word character before it, sep (0 or 1)
\* hyphens or whitespace characters, then n (1 to 3) digits with no word
\* character after them.
RoomIdPlaces(q) ==
  {p \in (1..Len(q)) \X {0, 1} \X (1..3) :
     LET i == p[1]
         digitsFrom == p[1] + p[2] + 1
         end == p[1] + p[2] + p[3]
     IN /\ end <= Len(q)
        /\ CharAt(q, i) \in RegionLetters
        /\ i = 1 \/ CharAt(q, i - 1) \notin WordChars
        /\ p[2] = 1 => CharAt(q, i + 1) \in {"-"} \cup Whitespace
        /\ \A d \in digitsFrom..end : CharAt(q, d) \in Digits
        /\ end = Len(q) \/ CharAt(q, end + 1) \notin WordChars}

\* The letter, upper-cased, and the digits of a place.
RoomIdAt(q, p) ==
  toUpperCase(CharAt(q, p[1])) \o SubSeq(q, p[1] + p[2] + 1, p[1] + p[2] + p[3])

\* The leftmost place of a non-empty set of places.
Leftmost(places) == CHOOSE p \in places : \A o \in places : p[1] <= o[1]

\* The leftmost letter A-D right before a digit, upper-cased, with the
\* digits (at most three) that follow it.
LeftmostLetterDigits(q) ==
  LET at == {i \in 1..(Len(q) - 1) :
               CharAt(q, i) \in RegionLetters /\ CharAt(q, i + 1) \in Digits}
      i  == CHOOSE k \in at : \A o \in at : k <= o
  IN toUpperCase(CharAt(q, i)) \o SubSeq(q, i + 1, i + Min(3, RunLength(q, i + 1, Digits)))

\* C26 as stated: a room id is extracted exactly when the query contains a
\* letter A-D, of either case, immediately followed by 1 to 3 digits, and
\* it is that letter upper-cased followed by those digits, from the
\* leftmost such occurrence.
C26_LetterThenDigits ==
  Classified =>
    /\ result.extractedEntities.roomId # Undefined <=> ContainsRoomPattern(query)
    /\ ContainsRoomPattern(query) =>
         result.extractedEntities.roomId = Some(LeftmostLetterDigits(query))

\* C26 amended: a room id is extracted exactly when the query contains a
\* letter A-D, of either case, then at most one hyphen or whitespace
\* character, then 1 to 3 digits, as a whole word; it is that letter
\* upper-cased followed by those digits, from the leftmost such place.
C26_WholeWordWithSeparator ==
  Classified =>
    /\ result.extractedEntities.roomId # Undefined <=> RoomIdPlaces(query) # {}
    /\ RoomIdPlaces(query) # {} =>
         result.extractedEntities.roomId = Some(RoomIdAt(query, Leftmost(RoomIdPlaces(query))))

\* Two room ids in one query, the left one in lower case with a separator.
C26_Witness ==
  /\ Classified
  /\ Cardinality(RoomIdPlaces(query)) >= 2
  /\ Leftmost(RoomIdPlaces(query))[2] = 1
  /\ CharAt(query, Leftmost(RoomIdPlaces(query))[1]) \in CharsOf(LowerLetters)
  /\ result.extractedEntities.roomId = Some(RoomIdAt(query, Leftmost(RoomIdPlaces(query))))

\* C27: in every classification result the list of structured endpoints is
\* not empty, holds only spells, monsters, equipment and rooms, and holds
\* no endpoint twice.
C27_Endpoints ==
  Classified =>
    /\ Len(result.routing.sqliteEndpoints) >= 1
    /\ Elements(result.routing.sqliteEndpoints) \subseteq
         {"spells", "monsters", "equipment", "rooms"}
    /\ \A m, n \in 1..Len(result.routing.sqliteEndpoints) :
         result.routing.sqliteEndpoints[m] = result.routing.sqliteEndpoints[n] => m = n

\* A structured result for a query that names no category: the endpoints
\* are the two of the fallback.
C27_Witness ==
  /\ Classified
  /\ result.type = "structured"
  /\ DetectedCategories(query) = {}
  /\ result.routing.sqliteEndpoints = <<"spells", "monsters">>

\* What C28 compares of a result.
CaseBlind(res) ==
  [type |-> res.type, confidence |-> res.confidence, routing |-> res.routing,
   roomId |-> res.extractedEntities.roomId, region |-> res.extractedEntities.region,
   level |-> res.extractedEntities.level, cr |-> res.extractedEntities.cr]

\* Two queries that differ only in the case of their letters.
DifferInCase(a, b) == a # b /\ toLowerCase(a) = toLowerCase(b)

\* Two queries that differ only in the whitespace around them.
DifferInEdges(a, b) == a # b /\ trim(a) = trim(b)

\* C28: classification does not depend on the case of the letters nor on
\* whitespace around the query: two queries of a process that differ only
\* in case, or only in surrounding whitespace, get the same type,
\* confidence, routing, roomId, region, level and cr.
C28_CaseAndEdges ==
  \A i, j \in 1..Len(calls) :
    DifferInCase(calls[i].query, calls[j].query)
      \/ DifferInEdges(calls[i].query, calls[j].query)
    => CaseBlind(calls[i].result) = CaseBlind(calls[j].result)

\* A room id as typed, within whitespace, and in lower case: one result.
C28_Witness ==
  /\ Len(calls) = 3
  /\ DifferInEdges(calls[1].query, calls[2].query)
  /\ DifferInCase(calls[1].query, calls[3].query)
  /\ calls[1].result.extractedEntities.roomId = Some("A12")
  /\ CaseBlind(calls[2].result) = CaseBlind(calls[1].result)
  /\ CaseBlind(calls[3].result) = CaseBlind(calls[1].result)

---------------------------------------------------------------------------
(* C29: the CORS gate                                                      *)

\* The latest request carries an Origin header that is not in the list.
ForeignOrigin == latest.req.origin # "" /\ latest.req.origin \notin ALLOWED_ORIGINS

\* The response the global error handler gives to the error of the gate.
CorsRefusal ==
  [status |-> 500, by |-> "errorHandler",
   json |-> [error |-> "Internal Server Error", message |-> "CORS: Origin not allowed"]]

\* C29: a request with an Origin header that is not in the list of allowed
\* origins reaches neither the rate limiter nor the handlers of /health,
\* /status and /chat nor the 404 handler, and the global error handler
\* answers it with HTTP 500 and the message 'CORS: Origin not allowed'; a
\* request without an Origin header, or with an allowed one, passes the
\* gate.
C29_CorsGate ==
  Answered =>
    /\ ForeignOrigin =>
         /\ latest.res = CorsRefusal
         /\ latest.after = latest.before
         /\ ~latest.reached
    /\ ~ForeignOrigin =>
         /\ latest.res # CorsRefusal
         /\ latest.req.method # "OPTIONS" /\ latest.req.body # "malformed" =>
              latest.res.by \in {"chatLimiter", "health", "chatRouter", "status", "notFound"}

\* A request to /chat from a foreign origin, from a client the limiter has
\* already counted requests of: refused, and not counted.
C29_Witness ==
  /\ Answered
  /\ ForeignOrigin
  /\ latest.req.path = "/chat"
  /\ latest.before >= 1
  /\ latest.after = latest.before
  /\ latest.res.status = 500
  /\ latest.res.json.message = "CORS: Origin not allowed"

---------------------------------------------------------------------------
(* C30: searches in the reference API                                      *)

\* The search has returned or raised.
SearchOver == search.fn # "none" /\ spc = "returned"

\* The references of the list response, none when it failed.
Listed5 ==
  IF truthy(search.list) THEN SubSeq(search.list.results, 1, Min(5, Len(search.list.results)))
  ELSE <<>>

\* The source of the record a detail fetch gives for a reference.
RecordUrl(ref) ==
  "https://www.dnd5eapi.co/api/2014" \o SearchKinds[search.fn].path \o "/" \o ref

\* C30: searchSrdSpells and searchSrdMonsters return at most 5 results:
\* the records, in the order of the list, of those of the first five
\* references of the list response whose detail fetch succeeded; a detail
\* fetch that fails drops its entry only and the fetches after it are
\* still made; and a list response that failed or is empty gives the empty
\* list without a detail fetch.
C30_TopFive ==
  SearchOver =>
    /\ ~returned.threw
    /\ Len(returned.value) <= 5
    /\ Len(search.details) = Len(Listed5)
    /\ \A n \in 1..Len(search.details) : search.details[n].ref = Listed5[n]
    /\ LET succeeded == SelectSeq(search.details, LAMBDA d : d.ok)
       IN /\ Len(returned.value) = Len(succeeded)
          /\ \A n \in 1..Len(succeeded) :
               returned.value[n].url = RecordUrl(succeeded[n].ref)
    /\ reply.kind # "ok" /\ search.details = <<>> => returned.value = <<>>

\* A list of more than five references whose second detail fetch failed
\* and whose fifth succeeded: four results.
C30_Witness ==
  /\ SearchOver
  /\ truthy(search.list)
  /\ Len(search.list.results) > 5
  /\ Len(search.details) = 5
  /\ ~search.details[2].ok
  /\ search.details[5].ok
  /\ Len(returned.value) = 4

====
